---- MODULE Spec2Model ----
(***************************************************************************)
(* Apollo Twin ALSA driver: PCM callbacks (kernel/apollo_pcm.c), interrupt *)
(* handler and hardware init (kernel/apollo_hw.c), control command         *)
(* (kernel/apollo_control.c), removal (kernel/apollo_main.c); the control   *)
(* library (userspace/apollo_control.c), the daemon (userspace/apollod.c), *)
(* the command line tool (userspace/apolloctl.c) and the control message   *)
(* of docs/HACKING.md.                                                     *)
(* The device is one struct apollo_device shared by the playback and the   *)
(* capture substream.                                                      *)
(***************************************************************************)
EXTENDS Integers, Sequences, FiniteSets, TLC

VARIABLES
    regs,          \* memory-mapped register window, by register name
    running,       \* apollo->running (atomic_t)
    sample_rate,   \* apollo->sample_rate
    format,        \* apollo->format
    channels,      \* apollo->channels
    runtime,       \* per substream: frame size and dma_bytes of its runtime
    phase,         \* per substream: last lifecycle callback completed on it
    ret,           \* per substream: return value of the last callback
    call,          \* per substream: position inside apollo_pcm_trigger
    faulted,       \* substreams for which ERROR was seen since their prepare
    irq_pc,        \* position inside apollo_interrupt
    irq_status,    \* apollo_interrupt: local u32 status
    irq_notified,  \* apollo_interrupt: substreams given snd_pcm_period_elapsed
    irq_acked,     \* apollo_interrupt: value written back to STATUS, or NoAck
    control_lock,  \* apollo->control_lock: owner, or Free
    ctl_pc,        \* per caller: position inside apollo_control_command
    ctl_cmd,       \* per caller: argument cmd
    ctl_data,      \* per caller: argument data is non-NULL
    ctl_out,       \* per caller: the word *data
    ctl_ret,       \* per caller: return value of the last call
    periods,       \* per substream: period notifications since its start
    removed,       \* apollo_remove has run: the device is gone
    usr,           \* userspace library: the last call and its results
    file,          \* /etc/apollo.conf: NoFile, Unreadable, or its lines
    config,        \* struct apollo_config held by the caller of the library
    saved,         \* the snapshot last written by apollo_control_save_config
    cli,           \* apolloctl: the last command line and what the run did
    daemon,        \* apollod: position in daemon_loop, running flag
    codec,         \* control message: command, payload, frame in flight, decode result
    pci,           \* apollo_probe / apollo_remove / apollo_hw_init: position, resources held
    test,          \* apollo_test: the run's options, counters and exit status
    dump           \* apollo_dump: the run's arguments, mapping and accesses

vars == <<regs, running, sample_rate, format, channels, runtime, phase, ret,
          call, faulted, irq_pc, irq_status, irq_notified, irq_acked,
          control_lock, ctl_pc, ctl_cmd, ctl_data, ctl_out, ctl_ret,
          periods, removed, usr, file, config, saved, cli, daemon, codec,
          pci, test, dump>>

pcmVars == <<running, sample_rate, format, channels, runtime, phase, ret,
             call, faulted>>
irqVars == <<irq_pc, irq_status, irq_notified, irq_acked>>
ctlVars == <<control_lock, ctl_pc, ctl_cmd, ctl_data, ctl_out, ctl_ret>>
kernelVars == <<regs, pcmVars, irqVars, ctlVars, periods, removed, pci>>
toolVars == <<test, dump>>
usrVars == <<usr, file, config, saved, cli, daemon, codec, toolVars>>

----------------------------------------------------------------------------
(* kernel/apollo.h *)

APOLLO_CMD_START == 1
APOLLO_CMD_STOP == 2
APOLLO_CMD_RESET == 3

APOLLO_STATUS_READY == 1
APOLLO_STATUS_RUNNING == 2
APOLLO_STATUS_ERROR == 4

APOLLO_FORMAT_S16_LE == 0
APOLLO_FORMAT_S24_3LE == 1
APOLLO_FORMAT_S32_LE == 2

RegNames == {"CONTROL", "STATUS", "SAMPLE_RATE", "FORMAT",
             "DMA_ADDR", "DMA_SIZE", "DMA_CONTROL"}

Streams == {"playback", "capture"}

StatusBits == {APOLLO_STATUS_READY, APOLLO_STATUS_RUNNING, APOLLO_STATUS_ERROR}
\* the combinations of READY and ERROR the handler and the callers look at
StatusValues == {0, APOLLO_STATUS_READY, APOLLO_STATUS_ERROR,
                 APOLLO_STATUS_READY + APOLLO_STATUS_ERROR}

\* status & bit
HasBit(v, b) == (v \div b) % 2 = 1

\* v & ~m on the three status bits
ClearBits(v, m) ==
    LET keep(b) == IF HasBit(v, b) /\ ~HasBit(m, b) THEN b ELSE 0
    IN  keep(1) + keep(2) + keep(4)

\* Registers are 32 bits wide; the model computes modulo WordMod.
WordMod == 2^30

\* lower_32_bits(apollo->dma_addr): bus address of the coherent DMA buffer
DmaBase == 65536

\* writel(value, regs + offset).  A write to STATUS clears the written
\* bits ("Clear interrupt"); every other register latches the value.
apollo_write_reg(r, offset, value) ==
    IF offset = "STATUS"
    THEN [r EXCEPT !["STATUS"] = ClearBits(r["STATUS"], value)]
    ELSE [r EXCEPT ![offset] = value]

\* readl(regs + offset)
apollo_read_reg(r, offset) == r[offset]

----------------------------------------------------------------------------
(* kernel/apollo_pcm.c *)

\* apollo_pcm_hardware: .rates
HwRates == {44100, 48000, 88200, 96000, 176400, 192000}
\* apollo_pcm_hardware: .channels_min, .channels_max
channels_min == 2
channels_max == 8
\* apollo_pcm_hardware: .formats
HwFormats == {"S16_LE", "S24_3LE", "S32_LE"}

\* snd_pcm_format_physical_width / 8 of the formats the driver names
SampleBytes(f) ==
    CASE f = "S16_LE" -> 2
      [] f = "S24_3LE" -> 3
      [] f = "S32_LE" -> 4
      [] OTHER -> 1

NoRuntime == [frame_bytes |-> 0, dma_bytes |-> 0]

\* bytes_to_frames(runtime, bytes)
bytes_to_frames(rt, bytes) == bytes \div rt.frame_bytes

\* What the audio subsystem reports for a substream: the driver keeps one
\* running flag per device, so a started substream whose flag was cleared
\* is stopped.
StreamState(s) ==
    IF phase[s] = "Running" /\ running = 0 THEN "Stopped" ELSE phase[s]

\* an open that leaves the device parameters of the previous stream
apollo_pcm_open_keeps_params(s) ==
    /\ call[s] = "none"
    /\ runtime' = [runtime EXCEPT ![s] = NoRuntime]
    /\ phase' = [phase EXCEPT ![s] = "Open"]
    /\ ret' = [ret EXCEPT ![s] = "OK"]
    /\ periods' = [periods EXCEPT ![s] = 0]
    /\ UNCHANGED <<regs, running, sample_rate, format, channels, call,
                   faulted, irqVars, ctlVars, removed, pci, usrVars>>

apollo_pcm_open(s) ==
    /\ call[s] = "none"
    /\ sample_rate' = 48000
    /\ format' = APOLLO_FORMAT_S32_LE
    /\ channels' = 2
    /\ runtime' = [runtime EXCEPT ![s] = NoRuntime]
    /\ phase' = [phase EXCEPT ![s] = "Open"]
    /\ ret' = [ret EXCEPT ![s] = "OK"]
    /\ periods' = [periods EXCEPT ![s] = 0]
    /\ UNCHANGED <<regs, running, call, faulted, irqVars, ctlVars,
                   removed, pci, usrVars>>

apollo_pcm_close(s) ==
    /\ call[s] = "none"
    /\ running' = 0
    /\ runtime' = [runtime EXCEPT ![s] = NoRuntime]
    /\ phase' = [phase EXCEPT ![s] = "Closed"]
    /\ ret' = [ret EXCEPT ![s] = "OK"]
    /\ periods' = [periods EXCEPT ![s] = 0]
    /\ UNCHANGED <<regs, sample_rate, format, channels, call, faulted,
                   irqVars, ctlVars, removed, pci, usrVars>>

\* the switch over params_format(params)
FormatCode(fmt) ==
    CASE fmt = "S16_LE" -> APOLLO_FORMAT_S16_LE
      [] fmt = "S24_3LE" -> APOLLO_FORMAT_S24_3LE
      [] fmt = "S32_LE" -> APOLLO_FORMAT_S32_LE
      [] OTHER -> -1

apollo_pcm_hw_params(s, rate, fmt, ch, bytes) ==
    /\ call[s] = "none"
    /\ sample_rate' = rate
    /\ channels' = ch
    /\ IF FormatCode(fmt) # -1
       THEN /\ format' = FormatCode(fmt)
            /\ runtime' = [runtime EXCEPT ![s] =
                   [frame_bytes |-> ch * SampleBytes(fmt), dma_bytes |-> bytes]]
            /\ phase' = [phase EXCEPT ![s] = "Configured"]
            /\ ret' = [ret EXCEPT ![s] = "OK"]
            /\ periods' = [periods EXCEPT ![s] = 0]
       ELSE /\ ret' = [ret EXCEPT ![s] = "EINVAL"]
            /\ UNCHANGED <<format, runtime, phase, periods>>
    /\ UNCHANGED <<regs, running, call, faulted, irqVars, ctlVars,
                   removed, pci, usrVars>>

apollo_pcm_hw_free(s) ==
    /\ call[s] = "none"
    /\ running' = 0
    /\ phase' = [phase EXCEPT ![s] = "Open"]
    /\ ret' = [ret EXCEPT ![s] = "OK"]
    /\ periods' = [periods EXCEPT ![s] = 0]
    /\ UNCHANGED <<regs, sample_rate, format, channels, runtime, call,
                   faulted, irqVars, ctlVars, removed, pci, usrVars>>

\* a prepare that leaves the DMA address register as the device left it
PrepareRegsNoDmaAddr(r, s) ==
    LET r1 == apollo_write_reg(r, "SAMPLE_RATE", sample_rate)
        r2 == apollo_write_reg(r1, "FORMAT", format)
    IN  apollo_write_reg(r2, "DMA_SIZE", runtime[s].dma_bytes)

\* the four register writes of apollo_pcm_prepare
PrepareRegs(r, s) ==
    LET r1 == apollo_write_reg(r, "SAMPLE_RATE", sample_rate)
        r2 == apollo_write_reg(r1, "FORMAT", format)
        r3 == apollo_write_reg(r2, "DMA_ADDR", DmaBase)
    IN  apollo_write_reg(r3, "DMA_SIZE", runtime[s].dma_bytes)

apollo_pcm_prepare(s) ==
    /\ call[s] = "none"
    /\ regs' = PrepareRegs(regs, s)
    /\ phase' = [phase EXCEPT ![s] = "Prepared"]
    /\ ret' = [ret EXCEPT ![s] = "OK"]
    /\ faulted' = faulted \ {s}
    /\ periods' = [periods EXCEPT ![s] = 0]
    /\ UNCHANGED <<running, sample_rate, format, channels, runtime, call,
                   irqVars, ctlVars, removed, pci, usrVars>>

\* case SNDRV_PCM_TRIGGER_START: atomic_set(&apollo->running, 1)
trigger_start_set(s) ==
    /\ call[s] = "none"
    /\ running' = 1
    /\ call' = [call EXCEPT ![s] = "start"]
    /\ UNCHANGED <<regs, sample_rate, format, channels, runtime, phase, ret,
                   faulted, irqVars, ctlVars, periods, removed, pci, usrVars>>

\* ... then the START write, break, return 0
trigger_start_write(s) ==
    /\ call[s] = "start"
    /\ regs' = apollo_write_reg(regs, "DMA_CONTROL", APOLLO_CMD_START)
    /\ call' = [call EXCEPT ![s] = "none"]
    /\ phase' = [phase EXCEPT ![s] = "Running"]
    /\ ret' = [ret EXCEPT ![s] = "OK"]
    /\ periods' = [periods EXCEPT ![s] = 0]
    /\ UNCHANGED <<running, sample_rate, format, channels, runtime, faulted,
                   irqVars, ctlVars, removed, pci, usrVars>>

\* case SNDRV_PCM_TRIGGER_STOP: atomic_set(&apollo->running, 0)
trigger_stop_set(s) ==
    /\ call[s] = "none"
    /\ running' = 0
    /\ call' = [call EXCEPT ![s] = "stop"]
    /\ UNCHANGED <<regs, sample_rate, format, channels, runtime, phase, ret,
                   faulted, irqVars, ctlVars, periods, removed, pci, usrVars>>

\* ... then the STOP write, break, return 0
trigger_stop_write(s) ==
    /\ call[s] = "stop"
    /\ regs' = apollo_write_reg(regs, "DMA_CONTROL", APOLLO_CMD_STOP)
    /\ call' = [call EXCEPT ![s] = "none"]
    /\ phase' = [phase EXCEPT ![s] = "Stopped"]
    /\ ret' = [ret EXCEPT ![s] = "OK"]
    /\ periods' = [periods EXCEPT ![s] = 0]
    /\ UNCHANGED <<running, sample_rate, format, channels, runtime, faulted,
                   irqVars, ctlVars, removed, pci, usrVars>>

\* default: return -EINVAL (any other trigger command)
trigger_default(s) ==
    /\ call[s] = "none"
    /\ ret' = [ret EXCEPT ![s] = "EINVAL"]
    /\ UNCHANGED <<regs, running, sample_rate, format, channels, runtime,
                   phase, call, faulted, irqVars, ctlVars,
                   periods, removed, pci, usrVars>>

apollo_pcm_trigger(s) ==
    \/ trigger_start_set(s)
    \/ trigger_start_write(s)
    \/ trigger_stop_set(s)
    \/ trigger_stop_write(s)
    \/ trigger_default(s)

\* the frame position apollo_pcm_pointer returns for substream s
apollo_pcm_pointer(s) ==
    LET position == apollo_read_reg(regs, "DMA_ADDR")
    IN  bytes_to_frames(runtime[s], (position - DmaBase + WordMod) % WordMod)

----------------------------------------------------------------------------
(* kernel/apollo_hw.c: apollo_interrupt *)

NoAck == -1

\* status = apollo_read_reg(apollo, APOLLO_REG_STATUS)
irq_read ==
    /\ irq_pc = "idle"
    /\ irq_status' = apollo_read_reg(regs, "STATUS")
    /\ irq_notified' = {}
    /\ irq_acked' = NoAck
    /\ irq_pc' = "error"
    /\ UNCHANGED <<regs, pcmVars, ctlVars, periods, removed, pci, usrVars>>

\* if (status & APOLLO_STATUS_ERROR) atomic_set(&apollo->running, 0)
irq_error ==
    /\ irq_pc = "error"
    /\ IF HasBit(irq_status, APOLLO_STATUS_ERROR)
       THEN /\ running' = 0
            /\ faulted' = faulted \cup {s \in Streams : StreamState(s) = "Running"}
       ELSE UNCHANGED <<running, faulted>>
    /\ irq_pc' = "ready"
    /\ UNCHANGED <<regs, sample_rate, format, channels, runtime, phase, ret,
                   call, irq_status, irq_notified, irq_acked, ctlVars,
                   periods, removed, pci, usrVars>>

\* periods per buffer and frames per period of the stream the audio subsystem
\* negotiated (the driver is told neither and programs neither)
PeriodsPerBuffer == 4
PeriodFrames == 256

\* snd_pcm_period_elapsed makes the audio subsystem count one more period
\* for every started substream it is called for
PeriodsAfter(status) ==
    [s \in Streams |->
       IF HasBit(status, APOLLO_STATUS_READY) /\ phase[s] = "Running"
       THEN (periods[s] + 1) % PeriodsPerBuffer
       ELSE periods[s]]

\* a handler that returns early when READY is not set, skipping the write-back
irq_ready_early_return ==
    /\ irq_pc = "ready"
    /\ irq_notified' = IF HasBit(irq_status, APOLLO_STATUS_READY)
                       THEN Streams ELSE {}
    /\ irq_pc' = IF HasBit(irq_status, APOLLO_STATUS_READY)
                 THEN "ack" ELSE "return"
    /\ periods' = PeriodsAfter(irq_status)
    /\ UNCHANGED <<regs, pcmVars, irq_status, irq_acked, ctlVars,
                   removed, pci, usrVars>>

\* if (status & APOLLO_STATUS_READY) snd_pcm_period_elapsed(both substreams)
irq_ready ==
    /\ irq_pc = "ready"
    /\ irq_notified' = IF HasBit(irq_status, APOLLO_STATUS_READY)
                       THEN Streams ELSE {}
    /\ irq_pc' = "ack"
    /\ periods' = PeriodsAfter(irq_status)
    /\ UNCHANGED <<regs, pcmVars, irq_status, irq_acked, ctlVars,
                   removed, pci, usrVars>>

\* a handler that reads STATUS a second time for the write-back
irq_ack_reread ==
    /\ irq_pc = "ack"
    /\ regs' = apollo_write_reg(regs, "STATUS",
                                apollo_read_reg(regs, "STATUS"))
    /\ irq_acked' = apollo_read_reg(regs, "STATUS")
    /\ irq_pc' = "return"
    /\ UNCHANGED <<pcmVars, irq_status, irq_notified, ctlVars,
                   periods, removed, pci, usrVars>>

\* apollo_write_reg(apollo, APOLLO_REG_STATUS, status)
irq_ack ==
    /\ irq_pc = "ack"
    /\ regs' = apollo_write_reg(regs, "STATUS", irq_status)
    /\ irq_acked' = irq_status
    /\ irq_pc' = "return"
    /\ UNCHANGED <<pcmVars, irq_status, irq_notified, ctlVars,
                   periods, removed, pci, usrVars>>

\* return IRQ_HANDLED (the locals of the invocation die)
irq_return ==
    /\ irq_pc = "return"
    /\ irq_pc' = "idle"
    /\ irq_status' = 0
    /\ irq_notified' = {}
    /\ irq_acked' = NoAck
    /\ UNCHANGED <<regs, pcmVars, ctlVars, periods, removed, pci, usrVars>>

apollo_interrupt ==
    \/ irq_read
    \/ irq_error
    \/ irq_ready
    \/ irq_ack
    \/ irq_return

----------------------------------------------------------------------------
(* the device behind the register window *)

\* the device presents any combination of status bits
DeviceStatus(v) ==
    /\ regs["STATUS"] # v
    /\ regs' = [regs EXCEPT !["STATUS"] = v]
    /\ UNCHANGED <<pcmVars, irqVars, ctlVars, periods, removed, pci, usrVars>>

\* the device presents an address in DMA_ADDR (0 after a reset, an address
\* outside the buffer, the end of the buffer)
DeviceDmaAddr(v) ==
    /\ regs["DMA_ADDR"] # v
    /\ regs' = [regs EXCEPT !["DMA_ADDR"] = v]
    /\ UNCHANGED <<pcmVars, irqVars, ctlVars, periods, removed, pci, usrVars>>

\* bytes of one period of substream s
PeriodBytes(s) == PeriodFrames * runtime[s].frame_bytes

\* DMA_ADDR after the device moved n more bytes through the buffer the
\* driver described to it with DMA_ADDR (base) and DMA_SIZE
DmaAdvance(r, n) ==
    [r EXCEPT !["DMA_ADDR"] = DmaBase + ((@ - DmaBase + n) % r["DMA_SIZE"])]

\* the started device completes one period of substream s: the address
\* register advances by one period and READY is raised
DevicePeriod(s) ==
    /\ regs["DMA_CONTROL"] = APOLLO_CMD_START
    /\ phase[s] = "Running"
    /\ regs["DMA_SIZE"] > 0
    /\ regs' = [DmaAdvance(regs, PeriodBytes(s)) EXCEPT
                  !["STATUS"] = IF HasBit(@, APOLLO_STATUS_READY)
                                THEN @ ELSE @ + APOLLO_STATUS_READY]
    /\ UNCHANGED <<pcmVars, irqVars, ctlVars, periods, removed, pci, usrVars>>

\* the transfer that was in flight when STOP was written still completes
\* and moves the address register
DeviceDrain(s) ==
    /\ regs["DMA_CONTROL"] = APOLLO_CMD_STOP
    /\ phase[s] = "Stopped"
    /\ regs["DMA_SIZE"] > 0
    /\ regs' = DmaAdvance(regs, PeriodBytes(s))
    /\ UNCHANGED <<pcmVars, irqVars, ctlVars, periods, removed, pci, usrVars>>

----------------------------------------------------------------------------
(* kernel/apollo_control.c: apollo_control_command *)

NumCallers == 2
Callers == 1..NumCallers
Free == 0
\* the caller's word before the call stores into it
Unset == -1

\* a thread enters apollo_control_command(apollo, cmd, data)
ctl_enter(c, cmd, data) ==
    /\ ctl_pc[c] = "idle"
    /\ ctl_cmd' = [ctl_cmd EXCEPT ![c] = cmd]
    /\ ctl_data' = [ctl_data EXCEPT ![c] = data]
    /\ ctl_out' = [ctl_out EXCEPT ![c] = Unset]
    /\ ctl_ret' = [ctl_ret EXCEPT ![c] = "none"]
    /\ ctl_pc' = [ctl_pc EXCEPT ![c] = "lock"]
    /\ UNCHANGED <<regs, pcmVars, irqVars, control_lock, periods, removed, pci, usrVars>>

\* a lock that is taken without waiting for its owner to release it
mutex_lock_no_wait(c) ==
    control_lock' = c

\* mutex_lock(&apollo->control_lock): blocks while another thread owns it
mutex_lock(c) ==
    /\ control_lock = Free
    /\ control_lock' = c

\* mutex_unlock(&apollo->control_lock)
mutex_unlock(c) ==
    control_lock' = Free

ctl_lock(c) ==
    /\ ctl_pc[c] = "lock"
    /\ mutex_lock(c)
    /\ ctl_pc' = [ctl_pc EXCEPT ![c] = "write"]
    /\ UNCHANGED <<regs, pcmVars, irqVars, ctl_cmd, ctl_data, ctl_out,
                   ctl_ret, periods, removed, pci, usrVars>>

\* apollo_write_reg(apollo, APOLLO_REG_CONTROL, cmd); if (data) ...
ctl_write(c) ==
    /\ ctl_pc[c] = "write"
    /\ regs' = apollo_write_reg(regs, "CONTROL", ctl_cmd[c])
    /\ ctl_pc' = [ctl_pc EXCEPT ![c] = IF ctl_data[c] THEN "wait" ELSE "unlock"]
    /\ UNCHANGED <<pcmVars, irqVars, control_lock, ctl_cmd, ctl_data,
                   ctl_out, ctl_ret, periods, removed, pci, usrVars>>

\* wait_event_timeout returns nonzero: STATUS & READY was seen.  Nothing
\* wakes control_wait, so the condition is read on entry and on expiry; the
\* device is free to change STATUS in between, hence READY at any moment
\* of the wait can be the one that is read.
ctl_wait_ready(c) ==
    /\ ctl_pc[c] = "wait"
    /\ HasBit(apollo_read_reg(regs, "STATUS"), APOLLO_STATUS_READY)
    /\ ctl_pc' = [ctl_pc EXCEPT ![c] = "read"]
    /\ UNCHANGED <<regs, pcmVars, irqVars, control_lock, ctl_cmd, ctl_data,
                   ctl_out, ctl_ret, periods, removed, pci, usrVars>>

\* a timeout path that returns without releasing control_lock
ctl_timeout_keeps_lock(c) ==
    /\ ctl_pc[c] = "wait"
    /\ ~HasBit(apollo_read_reg(regs, "STATUS"), APOLLO_STATUS_READY)
    /\ ctl_ret' = [ctl_ret EXCEPT ![c] = "ETIMEDOUT"]
    /\ ctl_pc' = [ctl_pc EXCEPT ![c] = "idle"]
    /\ ctl_cmd' = [ctl_cmd EXCEPT ![c] = 0]
    /\ ctl_data' = [ctl_data EXCEPT ![c] = FALSE]
    /\ UNCHANGED <<regs, pcmVars, irqVars, control_lock, ctl_out,
                   periods, removed, pci, usrVars>>

\* wait_event_timeout returns 0 after 100 ms without READY:
\* mutex_unlock; return -ETIMEDOUT
ctl_timeout(c) ==
    /\ ctl_pc[c] = "wait"
    /\ ~HasBit(apollo_read_reg(regs, "STATUS"), APOLLO_STATUS_READY)
    /\ mutex_unlock(c)
    /\ ctl_ret' = [ctl_ret EXCEPT ![c] = "ETIMEDOUT"]
    /\ ctl_pc' = [ctl_pc EXCEPT ![c] = "idle"]
    /\ ctl_cmd' = [ctl_cmd EXCEPT ![c] = 0]
    /\ ctl_data' = [ctl_data EXCEPT ![c] = FALSE]
    /\ UNCHANGED <<regs, pcmVars, irqVars, ctl_out, periods, removed, pci, usrVars>>

\* *data = apollo_read_reg(apollo, APOLLO_REG_STATUS)
ctl_read(c) ==
    /\ ctl_pc[c] = "read"
    /\ ctl_out' = [ctl_out EXCEPT ![c] = apollo_read_reg(regs, "STATUS")]
    /\ ctl_pc' = [ctl_pc EXCEPT ![c] = "unlock"]
    /\ UNCHANGED <<regs, pcmVars, irqVars, control_lock, ctl_cmd, ctl_data,
                   ctl_ret, periods, removed, pci, usrVars>>

\* mutex_unlock; return 0
ctl_unlock(c) ==
    /\ ctl_pc[c] = "unlock"
    /\ mutex_unlock(c)
    /\ ctl_ret' = [ctl_ret EXCEPT ![c] = "OK"]
    /\ ctl_pc' = [ctl_pc EXCEPT ![c] = "idle"]
    /\ ctl_cmd' = [ctl_cmd EXCEPT ![c] = 0]
    /\ ctl_data' = [ctl_data EXCEPT ![c] = FALSE]
    /\ UNCHANGED <<regs, pcmVars, irqVars, ctl_out, periods, removed, pci, usrVars>>

\* commands the callers issue
CtlCommands == {APOLLO_CMD_START, APOLLO_CMD_RESET}

apollo_control_command(c) ==
    \/ \E cmd \in CtlCommands, data \in BOOLEAN : ctl_enter(c, cmd, data)
    \/ ctl_lock(c)
    \/ ctl_write(c)
    \/ ctl_wait_ready(c)
    \/ ctl_timeout(c)
    \/ ctl_read(c)
    \/ ctl_unlock(c)

----------------------------------------------------------------------------
(* kernel/apollo_main.c: apollo_remove *)

\* free_irq (which waits for a handler in flight), snd_card_free,
\* dma_free_coherent, iounmap, pci_release_regions, pci_disable_device.
\* None of them stores to apollo->running, to control_lock or to
\* control_wait, and no field of struct apollo_device records the removal;
\* what snd_card_free does to open substreams is the sound core's.  A
\* register access after iounmap is undefined: it may still reach a window
\* whose STATUS reads as any value, which the device action provides.
apollo_remove ==
    /\ ~removed
    /\ irq_pc = "idle"
    /\ removed' = TRUE
    /\ UNCHANGED <<regs, pcmVars, irqVars, ctlVars, periods, pci, usrVars>>

----------------------------------------------------------------------------
(* kernel/apollo_main.c: apollo_probe, apollo_remove, apollo_suspend,       *)
(* apollo_resume; kernel/apollo_hw.c: apollo_hw_init                        *)

\* what apollo_probe acquires: pci_enable_device, pci_request_regions,
\* pci_ioremap_bar, dma_alloc_coherent, snd_card_new, request_irq
Resources == {"enable", "regions", "regs", "dma", "card", "irq"}

\* int timeout = 100 in apollo_hw_init
HwInitTimeout == 100

\* the locals of apollo_hw_init outside a call
NoHwInit == [timeout |-> 0, status |-> 0, reads |-> 0, seen |-> FALSE,
             caller |-> "none"]

\* a device the driver is bound to: probe returned 0
Bound ==
    [pc |-> "bound", held |-> Resources, bad |-> {}, err |-> "OK",
     fields |-> {"regs", "dma_area", "card", "pcm", "irq"},
     inited |-> {"running", "control_lock", "control_wait"},
     hw |-> NoHwInit]

\* a resource is handed back; handing back one that is not held is recorded
Release(p, res) ==
    [p EXCEPT !.held = @ \ {res},
              !.bad = @ \cup (IF res \in p.held THEN {} ELSE {res})]

\* a step of probe or remove that touches nothing but the device structure
PciStep(p) ==
    /\ pci' = p
    /\ UNCHANGED <<regs, pcmVars, irqVars, ctlVars, periods, removed, usrVars>>

\* devm_kzalloc (a zeroed structure), pci_set_drvdata
probe_alloc(ok) ==
    /\ pci.pc = "unbound"
    /\ IF ok
       THEN /\ pci' = [pci EXCEPT !.pc = "enable", !.bad = {}, !.err = "none",
                                  !.fields = {}, !.inited = {}]
            /\ running' = 0
            /\ sample_rate' = 0
            /\ format' = 0
            /\ channels' = 0
       ELSE /\ pci' = [pci EXCEPT !.bad = {}, !.err = "ENOMEM"]
            /\ UNCHANGED <<running, sample_rate, format, channels>>
    /\ UNCHANGED <<regs, runtime, phase, ret, call, faulted, irqVars, ctlVars,
                   periods, removed, usrVars>>

\* err = pci_enable_device(pci); if (err) return err
probe_enable(ok) ==
    /\ pci.pc = "enable"
    /\ PciStep(IF ok
               THEN [pci EXCEPT !.pc = "regions", !.held = @ \cup {"enable"}]
               ELSE [pci EXCEPT !.pc = "unbound", !.err = "EIO"])

\* err = pci_request_regions(pci, DRIVER_NAME); if (err) goto disable_pci
probe_regions(ok) ==
    /\ pci.pc = "regions"
    /\ PciStep(IF ok
               THEN [pci EXCEPT !.pc = "ioremap", !.held = @ \cup {"regions"}]
               ELSE [pci EXCEPT !.pc = "disable_pci", !.err = "EBUSY"])

\* apollo->regs = pci_ioremap_bar(pci, 0); if (!apollo->regs) goto
\* release_regions; pci_set_master
probe_ioremap(ok) ==
    /\ pci.pc = "ioremap"
    /\ PciStep(IF ok
               THEN [pci EXCEPT !.pc = "dma", !.held = @ \cup {"regs"},
                                !.fields = @ \cup {"regs"}]
               ELSE [pci EXCEPT !.pc = "release_regions", !.err = "EIO"])

\* apollo->dma_area = dma_alloc_coherent(...); if (!apollo->dma_area) goto
\* unmap_regs; atomic_set(&apollo->running, 0); mutex_init;
\* init_waitqueue_head
probe_dma(ok) ==
    /\ pci.pc = "dma"
    /\ pci' = IF ok
              THEN [pci EXCEPT !.pc = "card_new", !.held = @ \cup {"dma"},
                               !.fields = @ \cup {"dma_area"},
                               !.inited = {"running", "control_lock",
                                           "control_wait"}]
              ELSE [pci EXCEPT !.pc = "unmap_regs", !.err = "ENOMEM"]
    /\ running' = IF ok THEN 0 ELSE running
    /\ UNCHANGED <<regs, sample_rate, format, channels, runtime, phase, ret,
                   call, faulted, irqVars, ctlVars, periods, removed, usrVars>>

\* err = snd_card_new(...); if (err) goto free_dma; apollo->card = card
probe_card_new(ok) ==
    /\ pci.pc = "card_new"
    /\ PciStep(IF ok
               THEN [pci EXCEPT !.pc = "pcm_new", !.held = @ \cup {"card"},
                                !.fields = @ \cup {"card"}]
               ELSE [pci EXCEPT !.pc = "free_dma", !.err = "ENOMEM"])

\* err = snd_pcm_new(card, ..., &apollo->pcm); if (err) goto free_card;
\* snd_pcm_set_ops for both directions; apollo_hw_constraints returns 0
probe_pcm_new(ok) ==
    /\ pci.pc = "pcm_new"
    /\ PciStep(IF ok
               THEN [pci EXCEPT !.pc = "card_register",
                                !.fields = @ \cup {"pcm"}]
               ELSE [pci EXCEPT !.pc = "free_card", !.err = "ENOMEM"])

\* err = snd_card_register(card); if (err) goto free_card
probe_card_register(ok) ==
    /\ pci.pc = "card_register"
    /\ PciStep(IF ok
               THEN [pci EXCEPT !.pc = "request_irq"]
               ELSE [pci EXCEPT !.pc = "free_card", !.err = "ENOMEM"])

\* err = request_irq(pci->irq, apollo_interrupt, IRQF_SHARED, ...); if (err)
\* goto unregister_card; apollo->irq = pci->irq; apollo_hw_init is called
probe_request_irq(ok) ==
    /\ pci.pc = "request_irq"
    /\ PciStep(IF ok
               THEN [pci EXCEPT !.pc = "hw_reset", !.held = @ \cup {"irq"},
                                !.fields = @ \cup {"irq"},
                                !.hw = [NoHwInit EXCEPT !.caller = "probe"]]
               ELSE [pci EXCEPT !.pc = "unregister_card", !.err = "EBUSY"])

\* free_irq: free_irq(apollo->irq, apollo), which waits for a handler in
\* flight
probe_free_irq ==
    /\ pci.pc = "free_irq"
    /\ irq_pc = "idle"
    /\ PciStep([Release(pci, "irq") EXCEPT !.pc = "unregister_card"])

\* unregister_card: snd_card_free(card)
probe_unregister_card ==
    /\ pci.pc = "unregister_card"
    /\ PciStep([Release(pci, "card") EXCEPT !.pc = "free_dma"])

\* free_card: free_dma: dma_free_coherent(...)
probe_free_dma ==
    /\ pci.pc \in {"free_card", "free_dma"}
    /\ PciStep([Release(pci, "dma") EXCEPT !.pc = "unmap_regs"])

\* unmap_regs: iounmap(apollo->regs)
probe_unmap_regs ==
    /\ pci.pc = "unmap_regs"
    /\ PciStep([Release(pci, "regs") EXCEPT !.pc = "release_regions"])

\* release_regions: pci_release_regions(pci)
probe_release_regions ==
    /\ pci.pc = "release_regions"
    /\ PciStep([Release(pci, "regions") EXCEPT !.pc = "disable_pci"])

\* disable_pci: pci_disable_device(pci); return err
probe_disable_pci ==
    /\ pci.pc = "disable_pci"
    /\ PciStep([Release(pci, "enable") EXCEPT !.pc = "unbound"])

apollo_probe ==
    \/ \E ok \in BOOLEAN :
          \/ probe_alloc(ok)
          \/ probe_enable(ok)
          \/ probe_regions(ok)
          \/ probe_ioremap(ok)
          \/ probe_dma(ok)
          \/ probe_card_new(ok)
          \/ probe_pcm_new(ok)
          \/ probe_card_register(ok)
          \/ probe_request_irq(ok)
    \/ probe_free_irq
    \/ probe_unregister_card
    \/ probe_free_dma
    \/ probe_unmap_regs
    \/ probe_release_regions
    \/ probe_disable_pci

\* apollo_write_reg(apollo, APOLLO_REG_CONTROL, APOLLO_CMD_RESET); msleep(10)
hw_reset ==
    /\ pci.pc = "hw_reset"
    /\ regs' = apollo_write_reg(regs, "CONTROL", APOLLO_CMD_RESET)
    /\ pci' = [pci EXCEPT !.pc = "hw_poll", !.hw.timeout = HwInitTimeout]
    /\ UNCHANGED <<pcmVars, irqVars, ctlVars, periods, removed, usrVars>>

\* while (timeout--) { status = apollo_read_reg(STATUS); if (status &
\* APOLLO_STATUS_READY) break; msleep(1); }
hw_poll ==
    /\ pci.pc = "hw_poll"
    /\ PciStep(IF pci.hw.timeout = 0
               THEN [pci EXCEPT !.pc = "hw_check", !.hw.timeout = -1]
               ELSE LET status == apollo_read_reg(regs, "STATUS")
                        ready == HasBit(status, APOLLO_STATUS_READY)
                    IN  [pci EXCEPT !.pc = IF ready THEN "hw_check"
                                           ELSE "hw_poll",
                                    !.hw.timeout = @ - 1,
                                    !.hw.status = status,
                                    !.hw.reads = @ + 1,
                                    !.hw.seen = @ \/ ready])

\* where apollo_hw_init returns to
HwInitReturn(p, err) ==
    [p EXCEPT !.pc = IF err # "OK" /\ p.hw.caller = "probe" THEN "free_irq"
                     ELSE "bound",
              !.err = err,
              !.hw = NoHwInit]

\* an apollo_hw_init that reports success without looking at the last status
hw_check_unchecked ==
    /\ pci.pc = "hw_check"
    /\ regs' = apollo_write_reg(
                   apollo_write_reg(regs, "SAMPLE_RATE", 48000),
                   "FORMAT", APOLLO_FORMAT_S32_LE)
    /\ pci' = HwInitReturn(pci, "OK")
    /\ removed' = (removed /\ pci.hw.caller # "probe")
    /\ UNCHANGED <<pcmVars, irqVars, ctlVars, periods, usrVars>>

\* if (!(status & APOLLO_STATUS_READY)) return -ETIMEDOUT; write the
\* default sample rate and format; return 0
hw_check ==
    /\ pci.pc = "hw_check"
    /\ IF HasBit(pci.hw.status, APOLLO_STATUS_READY)
       THEN /\ regs' = apollo_write_reg(
                           apollo_write_reg(regs, "SAMPLE_RATE", 48000),
                           "FORMAT", APOLLO_FORMAT_S32_LE)
            /\ pci' = HwInitReturn(pci, "OK")
            /\ removed' = (removed /\ pci.hw.caller # "probe")
       ELSE /\ pci' = HwInitReturn(pci, "ETIMEDOUT")
            /\ UNCHANGED <<regs, removed>>
    /\ UNCHANGED <<pcmVars, irqVars, ctlVars, periods, usrVars>>

apollo_hw_init ==
    \/ hw_reset
    \/ hw_poll
    \/ hw_check

\* apollo_suspend: atomic_set(&apollo->running, 0); apollo_hw_suspend sets
\* running to 0 again and writes APOLLO_CMD_STOP to DMA_CONTROL
apollo_suspend ==
    /\ pci.pc = "bound"
    /\ running' = 0
    /\ regs' = apollo_write_reg(regs, "DMA_CONTROL", APOLLO_CMD_STOP)
    /\ pci' = [pci EXCEPT !.pc = "suspended"]
    /\ UNCHANGED <<sample_rate, format, channels, runtime, phase, ret, call,
                   faulted, irqVars, ctlVars, periods, removed, usrVars>>

\* apollo_resume: err = apollo_hw_resume(apollo), which is apollo_hw_init
apollo_resume ==
    /\ pci.pc = "suspended"
    /\ PciStep([pci EXCEPT !.pc = "hw_reset",
                           !.hw = [NoHwInit EXCEPT !.caller = "resume"]])

\* an apollo_remove that unmaps the registers before it frees the interrupt
remove_free_irq_late ==
    /\ pci.pc = "bound"
    /\ PciStep([(IF "regs" \in pci.fields THEN Release(pci, "regs") ELSE pci)
                   EXCEPT !.pc = "rm_card", !.bad = {}])

\* if (apollo->irq) free_irq(apollo->irq, apollo)
remove_free_irq ==
    /\ pci.pc = "bound"
    /\ "irq" \in pci.fields => irq_pc = "idle"
    /\ PciStep([(IF "irq" \in pci.fields THEN Release(pci, "irq") ELSE pci)
                   EXCEPT !.pc = "rm_card", !.bad = {}])

\* if (apollo->card) snd_card_free(apollo->card)
remove_card_free ==
    /\ pci.pc = "rm_card"
    /\ PciStep([(IF "card" \in pci.fields THEN Release(pci, "card") ELSE pci)
                   EXCEPT !.pc = "rm_dma"])

\* if (apollo->dma_area) dma_free_coherent(...)
remove_dma_free ==
    /\ pci.pc = "rm_dma"
    /\ PciStep([(IF "dma_area" \in pci.fields THEN Release(pci, "dma")
                 ELSE pci) EXCEPT !.pc = "rm_regs"])

\* if (apollo->regs) iounmap(apollo->regs)
remove_iounmap ==
    /\ pci.pc = "rm_regs"
    /\ PciStep([(IF "regs" \in pci.fields THEN Release(pci, "regs") ELSE pci)
                   EXCEPT !.pc = "rm_regions"])

\* pci_release_regions(pci); pci_disable_device(pci); the structure is freed
\* with the device
remove_release ==
    /\ pci.pc = "rm_regions"
    /\ pci' = [Release(Release(pci, "regions"), "enable")
                  EXCEPT !.pc = "unbound", !.err = "none"]
    /\ removed' = TRUE
    /\ UNCHANGED <<regs, pcmVars, irqVars, ctlVars, periods, usrVars>>

\* apollo_remove, one resource at a time
apollo_remove_steps ==
    \/ remove_free_irq
    \/ remove_card_free
    \/ remove_dma_free
    \/ remove_iounmap
    \/ remove_release

\* the shared interrupt line calls the handler while it is registered
IrqLine ==
    \/ "irq" \in pci.held /\ irq_read
    \/ irq_error
    \/ irq_ready
    \/ irq_ack
    \/ irq_return

----------------------------------------------------------------------------
(* userspace/apollo_control.c: analog gain, on the mixer of the card whose *)
(* controls kernel/apollo_control.c registers                              *)

\* simple mixer elements of the controls "Master Playback Volume" and
\* "Input Source" that apollo_control_init adds to the card
CardSelems == {"Master", "Input Source"}

\* sprintf(name, "Analog %d Gain", channel)
AnalogGainName(channel) == "Analog " \o ToString(channel) \o " Gain"

\* snd_mixer_find_selem(control->mixer, sid) returns an element
snd_mixer_find_selem(name) == name \in CardSelems

\* the range apollo_ctl_master_info reports for a volume control
VolumeMin == 0
VolumeMax == 100

\* the value apollo_ctl_master_get reports, whatever was put before
DriverVolume == 75

\* no value was stored
NoValue == -1

\* upper end of the gain range, in dB
GainMax == 65

\* if (gain_db < 0.0f) gain_db = 0.0f; else if (gain_db > 65.0f) ...
ClampGain(gain_db) ==
    IF gain_db < 0 THEN 0 ELSE IF gain_db > GainMax THEN GainMax ELSE gain_db

\* (long)((gain_db / 65.0f) * (max - min) + min), for whole dB
GainToVolume(gain_db) ==
    (gain_db * (VolumeMax - VolumeMin)) \div GainMax + VolumeMin

\* (float)(value - min) / (max - min) * 65.0f, in thousandths of a dB
VolumeToGain(value) ==
    ((value - VolumeMin) * GainMax * 1000) \div (VolumeMax - VolumeMin)

\* no library call was made yet
NoCall == [op |-> "none", channel |-> 0, gain_db |-> 0, ret |-> "none",
           value |-> NoValue, out |-> NoValue]

apollo_control_set_analog_gain(channel, gain_db) ==
    /\ usr' = [op |-> "set_analog_gain", channel |-> channel,
               gain_db |-> gain_db,
               ret |-> IF channel < 1 \/ channel > 4 THEN "EINVAL"
                       ELSE IF ~snd_mixer_find_selem(AnalogGainName(channel))
                       THEN "ENOENT" ELSE "OK",
               value |-> IF /\ channel \in 1..4
                            /\ snd_mixer_find_selem(AnalogGainName(channel))
                         THEN GainToVolume(ClampGain(gain_db)) ELSE NoValue,
               out |-> NoValue]
    /\ UNCHANGED <<kernelVars, toolVars, file, config, saved, cli, daemon, codec>>

apollo_control_get_analog_gain(channel) ==
    /\ usr' = [op |-> "get_analog_gain", channel |-> channel,
               gain_db |-> 0,
               ret |-> IF channel < 1 \/ channel > 4 THEN "EINVAL"
                       ELSE IF ~snd_mixer_find_selem(AnalogGainName(channel))
                       THEN "ENOENT" ELSE "OK",
               value |-> NoValue,
               out |-> IF /\ channel \in 1..4
                          /\ snd_mixer_find_selem(AnalogGainName(channel))
                       THEN VolumeToGain(DriverVolume) ELSE NoValue]
    /\ UNCHANGED <<kernelVars, toolVars, file, config, saved, cli, daemon, codec>>

\* struct apollo_config: phantom_power[4], one entry per analog input
PhantomChannels == 4
\* enum apollo_input_source, by position
InputSources == 0..5

\* a placeholder of the library: returns -ENOSYS before looking at anything
Placeholder(op, channel) ==
    [op |-> op, channel |-> channel, gain_db |-> 0, ret |-> "ENOSYS",
     value |-> NoValue, out |-> NoValue]

apollo_control_set_phantom_power(channel, enabled) ==
    /\ enabled \in BOOLEAN
    /\ usr' = Placeholder("set_phantom_power", channel)
    /\ UNCHANGED <<kernelVars, toolVars, file, config, saved, cli, daemon, codec>>

apollo_control_get_phantom_power(channel) ==
    /\ usr' = Placeholder("get_phantom_power", channel)
    /\ UNCHANGED <<kernelVars, toolVars, file, config, saved, cli, daemon, codec>>

apollo_control_set_input_source(channel, source) ==
    /\ source \in InputSources
    /\ usr' = Placeholder("set_input_source", channel)
    /\ UNCHANGED <<kernelVars, toolVars, file, config, saved, cli, daemon, codec>>

apollo_control_get_input_source(channel) ==
    /\ usr' = Placeholder("get_input_source", channel)
    /\ UNCHANGED <<kernelVars, toolVars, file, config, saved, cli, daemon, codec>>

----------------------------------------------------------------------------
(* userspace/apollo_control.c: the configuration file /etc/apollo.conf.    *)
(* Gains are in hundredths of a dB, frequencies in hundredths of a Hz.     *)
(* A value in the file is a text: the output of "%.1f" (a number of        *)
(* tenths), the output of "%d", or text that is not a number.              *)

APOLLO_MAX_CHANNELS == 8
APOLLO_INPUT_ANALOG1 == 0
APOLLO_MONITOR_MAIN == 0

\* the keys apollo_control_save_config writes
PersistedKeys ==
    {"analog_gain1", "analog_gain2", "analog_gain3", "analog_gain4",
     "output_gain_l", "output_gain_r",
     "phantom_power1", "phantom_power2", "phantom_power3", "phantom_power4",
     "monitor_source", "monitor_gain"}

\* the members of struct apollo_config that are never written to the file
ArrayFields == {"input_source", "hpf_enabled", "hpf_freq", "pad_enabled"}

ArrayLen(k) == IF k = "pad_enabled" THEN 4 ELSE APOLLO_MAX_CHANNELS

ConfigFields == PersistedKeys \cup ArrayFields

\* the struct after apollo_control_default_config
DefaultConfig ==
    [k \in ConfigFields |->
       CASE k = "input_source" ->
              [i \in 1..APOLLO_MAX_CHANNELS |->
                 APOLLO_INPUT_ANALOG1 + ((i - 1) % 4)]
         [] k = "hpf_freq" -> [i \in 1..APOLLO_MAX_CHANNELS |-> 7500]
         [] k \in {"hpf_enabled", "pad_enabled"} -> [i \in 1..ArrayLen(k) |-> 0]
         [] k = "monitor_source" -> APOLLO_MONITOR_MAIN
         [] OTHER -> 0]

\* a struct apollo_config declared and not initialised: every member holds
\* whatever the memory held
UninitConfig(g) ==
    [k \in ConfigFields |->
       IF k \in ArrayFields THEN [i \in 1..ArrayLen(k) |-> g] ELSE g]

\* values the memory under an uninitialised struct may hold
StackGarbage == {0, 1, 4242}

NoText == [kind |-> "none", n |-> 0]
JunkText == [kind |-> "junk", n |-> 0]

\* printf("%.1f", x): x rounded to the nearest tenth
FormatF1(x) ==
    [kind |-> "f1",
     n |-> IF x >= 0 THEN (x + 5) \div 10 ELSE 0 - ((5 - x) \div 10)]

\* printf("%d", x)
FormatD(x) == [kind |-> "d", n |-> x]

\* atof(text), in hundredths
atof(text) ==
    CASE text.kind = "f1" -> text.n * 10
      [] text.kind = "d" -> text.n * 100
      [] OTHER -> 0

NoFile == [state |-> "missing", lines |-> <<>>]
UnreadableFile == [state |-> "unreadable", lines |-> <<>>]
FileOf(lines) == [state |-> "present", lines |-> lines]

Line(key, value) == [key |-> key, value |-> value]

\* the loop body of apollo_control_load_config for one line
ParseLine(cfg, line) ==
    IF line.value = NoText THEN cfg
    ELSE IF line.key = "analog_gain1"
         THEN [cfg EXCEPT !["analog_gain1"] = atof(line.value)]
    ELSE IF line.key = "analog_gain2"
         THEN [cfg EXCEPT !["analog_gain2"] = atof(line.value)]
    ELSE cfg

RECURSIVE ParseLines(_, _)
ParseLines(cfg, lines) ==
    IF lines = <<>> THEN cfg
    ELSE ParseLines(ParseLine(cfg, Head(lines)), Tail(lines))

\* return value and struct contents of apollo_control_load_config(&cfg)
load_config(f, cfg) ==
    IF f.state = "missing" THEN [ret |-> "ENOENT", config |-> cfg]
    ELSE IF f.state = "unreadable" THEN [ret |-> "EACCES", config |-> cfg]
    ELSE [ret |-> "OK", config |-> ParseLines(cfg, f.lines)]

\* the text apollo_control_save_config writes
SavedLines(cfg) ==
    << Line("# Apollo Twin Configuration", NoText),
       Line("", NoText),
       Line("analog_gain1", FormatF1(cfg["analog_gain1"])),
       Line("analog_gain2", FormatF1(cfg["analog_gain2"])),
       Line("analog_gain3", FormatF1(cfg["analog_gain3"])),
       Line("analog_gain4", FormatF1(cfg["analog_gain4"])),
       Line("output_gain_l", FormatF1(cfg["output_gain_l"])),
       Line("output_gain_r", FormatF1(cfg["output_gain_r"])),
       Line("phantom_power1", FormatD(cfg["phantom_power1"])),
       Line("phantom_power2", FormatD(cfg["phantom_power2"])),
       Line("phantom_power3", FormatD(cfg["phantom_power3"])),
       Line("phantom_power4", FormatD(cfg["phantom_power4"])),
       Line("monitor_source", FormatD(cfg["monitor_source"])),
       Line("monitor_gain", FormatF1(cfg["monitor_gain"])) >>

NoSnapshot == UninitConfig(-1)

LibCall(op, r) ==
    [op |-> op, channel |-> 0, gain_db |-> 0, ret |-> r,
     value |-> NoValue, out |-> NoValue]

apollo_control_load_config ==
    /\ usr' = LibCall("load_config", load_config(file, config).ret)
    /\ config' = load_config(file, config).config
    /\ UNCHANGED <<kernelVars, toolVars, file, saved, cli, daemon, codec>>

\* fopen(APOLLO_CONFIG_FILE, "w") succeeds or fails with the permissions
apollo_control_save_config(writable) ==
    /\ usr' = LibCall("save_config", IF writable THEN "OK" ELSE "EACCES")
    /\ file' = IF writable THEN FileOf(SavedLines(config)) ELSE file
    /\ saved' = IF writable THEN config ELSE saved
    /\ UNCHANGED <<kernelVars, toolVars, config, cli, daemon, codec>>

apollo_control_default_config ==
    /\ config' = DefaultConfig
    /\ usr' = LibCall("default_config", "none")
    /\ UNCHANGED <<kernelVars, toolVars, file, saved, cli, daemon, codec>>

\* a caller declares a struct apollo_config without initialising it
DeclareConfig(g) ==
    /\ config' = UninitConfig(g)
    /\ usr' = NoCall
    /\ UNCHANGED <<kernelVars, toolVars, file, saved, cli, daemon, codec>>

\* a caller fills in a snapshot of its own
AssignConfig(cfg) ==
    /\ config' = cfg
    /\ usr' = NoCall
    /\ UNCHANGED <<kernelVars, toolVars, file, saved, cli, daemon, codec>>

\* the administrator replaces, removes or protects /etc/apollo.conf
EditFile(f) ==
    /\ file' = f
    /\ saved' = NoSnapshot
    /\ UNCHANGED <<kernelVars, toolVars, usr, config, cli, daemon, codec>>

----------------------------------------------------------------------------
(* userspace/apollod.c: the daemon *)

DaemonOff ==
    [pc |-> "off", running |-> 1, last |-> "none", daemon_mode |-> 1,
     pid_file |-> FALSE, cleanups |-> 0]

\* main up to the call of daemon_loop: daemon_mode is 0 when argv[1] is
\* "-f"; the signal handlers are installed; in daemon mode daemonize and
\* write_pid_file, whose fopen may fail
apollod_main(foreground, written) ==
    /\ daemon.pc = "off"
    /\ foreground => ~written
    /\ daemon' = [DaemonOff EXCEPT !.pc = "init",
                                   !.daemon_mode = IF foreground THEN 0 ELSE 1,
                                   !.pid_file = written]
    /\ \E g \in StackGarbage : config' = UninitConfig(g)
    /\ UNCHANGED <<kernelVars, toolVars, usr, file, saved, cli, codec>>

signal_handler(sig) ==
    /\ daemon.pc \notin {"off", "exited"}
    /\ daemon' = IF sig \in {"SIGTERM", "SIGINT"}
                 THEN [daemon EXCEPT !.running = 0]
                 ELSE daemon
    /\ UNCHANGED <<kernelVars, toolVars, usr, file, config, saved, cli, codec>>

\* control = apollo_control_init(); if (!control) return;
daemon_control_init(ok) ==
    /\ daemon.pc = "init"
    /\ daemon' = [daemon EXCEPT !.pc = IF ok THEN "load" ELSE "return"]
    /\ UNCHANGED <<kernelVars, toolVars, usr, file, config, saved, cli, codec>>

\* mutant of daemon_load_config: no fallback to the defaults
daemon_load_config_no_fallback ==
    /\ daemon.pc = "load"
    /\ usr' = LibCall("load_config", load_config(file, config).ret)
    /\ config' = load_config(file, config).config
    /\ daemon' = [daemon EXCEPT !.pc = "mixer"]
    /\ UNCHANGED <<kernelVars, toolVars, file, saved, cli, codec>>

\* if (apollo_control_load_config(control, &config) < 0)
\*         apollo_control_default_config(&config);
daemon_load_config ==
    /\ daemon.pc = "load"
    /\ usr' = LibCall("load_config", load_config(file, config).ret)
    /\ config' = IF load_config(file, config).ret # "OK"
                 THEN DefaultConfig
                 ELSE load_config(file, config).config
    /\ daemon' = [daemon EXCEPT !.pc = "mixer"]
    /\ UNCHANGED <<kernelVars, toolVars, file, saved, cli, codec>>

\* if (init_alsa_mixer() < 0) syslog(LOG_WARNING, ...);
daemon_init_mixer(ok) ==
    /\ daemon.pc = "mixer"
    /\ daemon' = [daemon EXCEPT !.pc = "loop"]
    /\ UNCHANGED <<kernelVars, toolVars, usr, file, config, saved, cli, codec>>

\* what apollo_control_process_events may return
EventResults == {"OK", "ENOMEM"}

\* mutant of daemon_process_events: a failed call ends the loop
daemon_process_events_fatal(r) ==
    /\ daemon.pc = "loop"
    /\ daemon.running # 0
    /\ daemon' = [daemon EXCEPT !.last = r,
                                !.pc = IF r = "OK" THEN "loop" ELSE "return"]
    /\ UNCHANGED <<kernelVars, toolVars, usr, file, config, saved, cli, codec>>

\* one iteration of while (running): the return value is not looked at
daemon_process_events(r) ==
    /\ daemon.pc = "loop"
    /\ daemon.running # 0
    /\ daemon' = [daemon EXCEPT !.last = r]
    /\ UNCHANGED <<kernelVars, toolVars, usr, file, config, saved, cli, codec>>

\* while (running) is left; apollo_control_cleanup(control); daemon_loop
\* returns
daemon_stop ==
    /\ daemon.pc = "loop"
    /\ daemon.running = 0
    /\ daemon' = [daemon EXCEPT !.pc = "return", !.cleanups = @ + 1]
    /\ UNCHANGED <<kernelVars, toolVars, usr, file, config, saved, cli, codec>>

\* a main that returns without removing the PID file
apollod_exit_keeps_pid_file ==
    /\ daemon.pc = "return"
    /\ daemon' = [daemon EXCEPT !.pc = "exited"]
    /\ UNCHANGED <<kernelVars, toolVars, usr, file, config, saved, cli, codec>>

\* main after daemon_loop: if (daemon_mode) remove_pid_file(); closelog();
\* return EXIT_SUCCESS
apollod_exit ==
    /\ daemon.pc = "return"
    /\ daemon' = [daemon EXCEPT
                    !.pc = "exited",
                    !.pid_file = IF daemon.daemon_mode = 1 THEN FALSE ELSE @]
    /\ UNCHANGED <<kernelVars, toolVars, usr, file, config, saved, cli, codec>>

----------------------------------------------------------------------------
(* userspace/apolloctl.c: the command line tool *)

EXIT_SUCCESS == 0
EXIT_FAILURE == 1

\* a command line word: its text and what atoi / atof make of it
Tok(text, number) == [s |-> text, n |-> number]

\* what one run of apolloctl did: the exit code, whether it was asked to
\* set or get something, the return values of the library calls it made,
\* whether its arguments passed the checks, and the key and value of a set
Ran(cmd, exit, request, rets, valid, key, val) ==
    [cmd |-> cmd, exit |-> exit, request |-> request, rets |-> rets,
     valid |-> valid, key |-> key, val |-> val]

NoCli == [argv |-> <<>>, ran |-> Ran("none", EXIT_SUCCESS, "none", {}, TRUE, "", 0)]

Usage(cmd) == Ran(cmd, EXIT_FAILURE, "none", {}, FALSE, "", 0)

\* return value of the analog gain calls of the library on the card
AnalogGainRet(channel) ==
    IF channel < 1 \/ channel > 4 THEN "EINVAL"
    ELSE IF ~snd_mixer_find_selem(AnalogGainName(channel)) THEN "ENOENT"
    ELSE "OK"

ExitOf(r) == IF r = "OK" THEN EXIT_SUCCESS ELSE EXIT_FAILURE

cmd_gain(argc, a) ==
    IF argc < 2 THEN Usage("gain")
    ELSE IF a[1].n < 1 \/ a[1].n > 4 THEN Usage("gain")
    ELSE IF argc = 3
         THEN Ran("gain", ExitOf(AnalogGainRet(a[1].n)), "set",
                  {AnalogGainRet(a[1].n)}, TRUE,
                  "analog_gain" \o ToString(a[1].n), a[2].n)
         ELSE Ran("gain", ExitOf(AnalogGainRet(a[1].n)), "get",
                  {AnalogGainRet(a[1].n)}, TRUE, "", 0)

cmd_phantom(argc, a) ==
    IF argc < 2 THEN Usage("phantom")
    ELSE IF a[1].n < 1 \/ a[1].n > 4 THEN Usage("phantom")
    ELSE IF argc = 3
         THEN IF a[2].s \notin {"on", "off"} THEN Usage("phantom")
              ELSE Ran("phantom", ExitOf("ENOSYS"), "set", {"ENOSYS"}, TRUE,
                       "phantom_power" \o ToString(a[1].n),
                       IF a[2].s = "on" THEN 1 ELSE 0)
         ELSE Ran("phantom", ExitOf("ENOSYS"), "get", {"ENOSYS"}, TRUE, "", 0)

source_names ==
    <<"analog1", "analog2", "analog3", "analog4", "digital1", "digital2">>

monitor_names == <<"main", "alt", "cue">>

IndexOf(names, text) == CHOOSE i \in 1..Len(names) : names[i] = text

cmd_input(argc, a) ==
    IF argc < 2 THEN Usage("input")
    ELSE IF a[1].n < 1 \/ a[1].n > APOLLO_MAX_CHANNELS THEN Usage("input")
    ELSE IF argc = 3
         THEN IF \A i \in 1..Len(source_names) : source_names[i] # a[2].s
              THEN Usage("input")
              ELSE Ran("input", ExitOf("ENOSYS"), "set", {"ENOSYS"}, TRUE,
                       "input_source" \o ToString(a[1].n),
                       IndexOf(source_names, a[2].s) - 1)
         ELSE Ran("input", ExitOf("ENOSYS"), "get", {"ENOSYS"}, TRUE, "", 0)

\* a placeholder: prints and makes no library call
cmd_monitor(argc, a) ==
    IF argc = 2
    THEN IF \A i \in 1..Len(monitor_names) : monitor_names[i] # a[1].s
         THEN Usage("monitor")
         ELSE Ran("monitor", EXIT_SUCCESS, "set", {}, TRUE, "monitor_source",
                  IndexOf(monitor_names, a[1].s) - 1)
    ELSE Ran("monitor", EXIT_SUCCESS, "get", {}, TRUE, "", 0)

\* placeholders: print and make no library call
cmd_save(argc, a) ==
    IF argc < 2 THEN Usage("save")
    ELSE Ran("save", EXIT_SUCCESS, "save", {}, TRUE, "", 0)

cmd_load(argc, a) ==
    IF argc < 2 THEN Usage("load")
    ELSE Ran("load", EXIT_SUCCESS, "load", {}, TRUE, "", 0)

cmd_status(argc, a) ==
    Ran("status", EXIT_SUCCESS, "get",
        {AnalogGainRet(i) : i \in 1..4} \cup {"ENOSYS"}, TRUE, "", 0)

\* main of apolloctl: argv without the program name; init_ok tells whether
\* apollo_control_init returned a control handle
main(argv, init_ok) ==
    IF Len(argv) < 1 THEN Usage("none")
    ELSE IF ~init_ok
         THEN Ran(argv[1].s, EXIT_FAILURE, "none", {"NULL"}, TRUE, "", 0)
    ELSE LET argc == Len(argv)
             a == Tail(argv)
             cmd == argv[1].s
         IN  CASE cmd = "gain" -> cmd_gain(argc, a)
               [] cmd = "phantom" -> cmd_phantom(argc, a)
               [] cmd = "input" -> cmd_input(argc, a)
               [] cmd = "monitor" -> cmd_monitor(argc, a)
               [] cmd = "save" -> cmd_save(argc, a)
               [] cmd = "load" -> cmd_load(argc, a)
               [] cmd = "status" -> cmd_status(argc, a)
               [] cmd \in {"help", "-h"} ->
                    Ran(cmd, EXIT_SUCCESS, "none", {}, TRUE, "", 0)
               [] OTHER -> Usage(cmd)

\* one run of apolloctl; no command writes the configuration file or a
\* snapshot
apolloctl(argv, init_ok) ==
    /\ cli' = [argv |-> argv, ran |-> main(argv, init_ok)]
    /\ UNCHANGED <<kernelVars, toolVars, usr, file, config, saved, daemon, codec>>

----------------------------------------------------------------------------
(* docs/HACKING.md: the control message *)

(* A frame is a sequence of bytes; a 32-bit word is the pair of its low    *)
(* and its high 16 bits.                                                   *)

\* a ^ b on the low n bits
RECURSIVE Xor(_, _, _)
Xor(a, b, n) ==
    IF n = 0 THEN 0
    ELSE (((a % 2) + (b % 2)) % 2) + 2 * Xor(a \div 2, b \div 2, n - 1)

\* the four bytes of a word in memory, little-endian
WordBytes(w) == <<w[1] % 256, w[1] \div 256, w[2] % 256, w[2] \div 256>>

\* a uint16_t in memory
HalfBytes(n) == <<(n % 65536) % 256, (n % 65536) \div 256>>

\* 0xdeadbeef in memory
MagicBytes == <<239, 190, 173, 222>>

\* sizeof(struct apollo_control_msg): magic, length, command, checksum
MsgSize == 12

\* the CRC-32 polynomial 0xEDB88320: low half 0x8320, high half 0xEDB8
Crc32Poly == <<33568, 60856>>

\* one bit of the CRC (both halves stay within 16 bits): shift right, and fold the polynomial in when a one
\* was shifted out
Crc32Shift(w) ==
    LET shr == <<(w[1] \div 2) + 32768 * (w[2] % 2), w[2] \div 2>>
    IN  IF w[1] % 2 = 1
        THEN <<Xor(shr[1], Crc32Poly[1], 16), Xor(shr[2], Crc32Poly[2], 16)>>
        ELSE shr

Crc32Byte(w, b) ==
    Crc32Shift(Crc32Shift(Crc32Shift(Crc32Shift(
      Crc32Shift(Crc32Shift(Crc32Shift(Crc32Shift(
        <<Xor(w[1], b, 16), w[2]>>))))))))

RECURSIVE Crc32Update(_, _)
Crc32Update(w, bytes) ==
    IF bytes = <<>> \/ w[1] \notin 0..65535 THEN w
    ELSE Crc32Update(Crc32Byte(w, Head(bytes)), Tail(bytes))

\* crc32(buf, len) as the four bytes stored in memory
crc32(bytes) ==
    LET w == Crc32Update(<<65535, 65535>>, bytes)
    IN  WordBytes(<<65535 - w[1], 65535 - w[2]>>)

\* mutant of send_control_message: the checksum covers the header only
send_control_message_header_crc(cmd, data) ==
    LET header == MagicBytes \o HalfBytes(MsgSize + Len(data)) \o HalfBytes(cmd)
    IN  header \o data \o crc32(header)

\* the bytes send_control_message writes: magic, length = total_len,
\* command, data, and the checksum over the first total_len - 4 bytes
send_control_message(cmd, data) ==
    LET body == MagicBytes \o HalfBytes(MsgSize + Len(data)) \o HalfBytes(cmd)
                  \o data
    IN  body \o crc32(body)

Message(cmd, data) == [kind |-> "Message", command |-> cmd, payload |-> data]
DecodeError(kind) == [kind |-> kind, command |-> 0, payload |-> <<>>]

\* decode: too short, then the checksum before any field is trusted, then
\* the declared length and the magic
decode(bytes) ==
    IF Len(bytes) < MsgSize THEN DecodeError("MalformedFrameError")
    ELSE IF crc32(SubSeq(bytes, 1, Len(bytes) - 4))
              # SubSeq(bytes, Len(bytes) - 3, Len(bytes))
         THEN DecodeError("ChecksumError")
    ELSE IF HalfBytes(Len(bytes)) # SubSeq(bytes, 5, 6)
              \/ SubSeq(bytes, 1, 4) # MagicBytes
         THEN DecodeError("MalformedFrameError")
    ELSE Message(bytes[7] + 256 * bytes[8], SubSeq(bytes, 9, Len(bytes) - 4))

NoCodec == [pc |-> "idle", command |-> 0, payload |-> <<>>, frame |-> <<>>,
            changed |-> 0, result |-> DecodeError("none")]

\* a message is encoded and sent
codec_send(cmd, data) ==
    /\ codec.pc = "idle"
    /\ codec' = [pc |-> "sent", command |-> cmd, payload |-> data,
                 frame |-> send_control_message(cmd, data),
                 changed |-> 0, result |-> DecodeError("none")]
    /\ UNCHANGED <<kernelVars, toolVars, usr, file, config, saved, cli, daemon>>

\* one byte of the frame in flight is changed: the bits of mask are flipped
CorruptByte(pos, mask) ==
    /\ codec.pc = "sent"
    /\ pos \in 1..Len(codec.frame)
    /\ codec' = [codec EXCEPT
                   !.pc = "damaged",
                   !.changed = pos,
                   !.frame[pos] = Xor(@, mask, 8)]
    /\ UNCHANGED <<kernelVars, toolVars, usr, file, config, saved, cli, daemon>>

\* the receiver shortens the frame by its last byte
TruncateFrame ==
    /\ codec.pc = "sent"
    /\ codec' = [codec EXCEPT
                   !.pc = "cut",
                   !.frame = SubSeq(@, 1, Len(@) - 1)]
    /\ UNCHANGED <<kernelVars, toolVars, usr, file, config, saved, cli, daemon>>

codec_receive ==
    /\ codec.pc \in {"sent", "damaged", "cut"}
    /\ codec' = [codec EXCEPT !.pc = "decoded", !.result = decode(codec.frame)]
    /\ UNCHANGED <<kernelVars, toolVars, usr, file, config, saved, cli, daemon>>

\* the receiver is done with the message
codec_done ==
    /\ codec.pc = "decoded"
    /\ codec' = NoCodec
    /\ UNCHANGED <<kernelVars, toolVars, usr, file, config, saved, cli, daemon>>

----------------------------------------------------------------------------
(* tools/apollo_test.c *)

TEST_PASSED == 0
TEST_FAILED == 1
TEST_SKIPPED == 2

TestCase(name, requires_device) ==
    [name |-> name, requires_device |-> requires_device]

\* static const test_case_t test_cases[]
test_cases ==
    << TestCase("build_system", 0),
       TestCase("kernel_compilation", 0),
       TestCase("userspace_compilation", 0),
       TestCase("tools_compilation", 0),
       TestCase("config_files", 0),
       TestCase("device_detection", 1),
       TestCase("kernel_loading", 1),
       TestCase("alsa_device", 1),
       TestCase("control_daemon", 1),
       TestCase("audio_loopback", 1) >>

\* what the test function of a case can return: test_kernel_module_loading
\* skips itself without root, every other function passes or fails
TestReturns(name) ==
    IF name = "kernel_loading"
    THEN {TEST_PASSED, TEST_FAILED, TEST_SKIPPED}
    ELSE {TEST_PASSED, TEST_FAILED}

\* no run of the test suite yet
NoRun ==
    [pc |-> "none", argv |-> <<>>, run_device_tests |-> 0, i |-> 0,
     test_count |-> 0, pass_count |-> 0, fail_count |-> 0, skip_count |-> 0,
     results |-> <<>>, executed |-> {}, status |-> EXIT_SUCCESS]

\* a print_test_result that counts a skipped test as failed
print_test_result_skip_fails(t, result) ==
    [t EXCEPT !.pass_count = IF result = TEST_PASSED THEN @ + 1 ELSE @,
              !.fail_count = IF result \in {TEST_FAILED, TEST_SKIPPED}
                             THEN @ + 1 ELSE @,
              !.test_count = @ + 1]

\* print_test_result: one of the three counters by the result (none for an
\* unknown result), and test_count
print_test_result(t, result) ==
    [t EXCEPT !.pass_count = IF result = TEST_PASSED THEN @ + 1 ELSE @,
              !.fail_count = IF result = TEST_FAILED THEN @ + 1 ELSE @,
              !.skip_count = IF result = TEST_SKIPPED THEN @ + 1 ELSE @,
              !.test_count = @ + 1]

\* main up to the loop: run_device_tests is set when argv[1] is "--device"
apollo_test_main(argv) ==
    /\ test.pc \in {"none", "exited"}
    /\ test' = [NoRun EXCEPT
                  !.pc = "loop",
                  !.argv = argv,
                  !.run_device_tests =
                      IF Len(argv) >= 1 /\ argv[1] = "--device" THEN 1 ELSE 0]
    /\ UNCHANGED <<kernelVars, usr, file, config, saved, cli, daemon, codec,
                   dump>>

\* one iteration of the loop over test_cases; result is what the test
\* function returns when it is called
apollo_test_case(result) ==
    /\ test.pc = "loop"
    /\ test.i < Len(test_cases)
    /\ LET case == test_cases[test.i + 1]
           skip == case.requires_device = 1 /\ test.run_device_tests = 0
           res == IF skip THEN TEST_SKIPPED ELSE result
           t == print_test_result(test, res)
       IN  /\ result \in TestReturns(case.name)
           /\ skip => result = TEST_PASSED
           /\ test' = [t EXCEPT
                         !.i = @ + 1,
                         !.results = Append(@, res),
                         !.executed = IF skip THEN @
                                      ELSE @ \cup {case.name}]
    /\ UNCHANGED <<kernelVars, usr, file, config, saved, cli, daemon, codec,
                   dump>>

\* print_test_summary: exit(EXIT_FAILURE) if fail_count > 0, else
\* exit(EXIT_SUCCESS)
print_test_summary ==
    /\ test.pc = "loop"
    /\ test.i = Len(test_cases)
    /\ test' = [test EXCEPT
                  !.pc = "exited",
                  !.status = IF test.fail_count > 0 THEN EXIT_FAILURE
                             ELSE EXIT_SUCCESS]
    /\ UNCHANGED <<kernelVars, usr, file, config, saved, cli, daemon, codec,
                   dump>>

----------------------------------------------------------------------------
(* tools/README.md: apollo_dump *)

\* #define MAX_DUMP_SIZE (1024 * 1024)
MAX_DUMP_SIZE == 1048576

\* size of a page of the mapping
PAGE_SIZE == 4096

\* mmap failed, or nothing was mapped
NoMap == -1

\* no run of the dump tool yet
NoDump ==
    [pc |-> "none", offset |-> 0, size |-> 0, st_size |-> 0, mapped |-> NoMap,
     read_lo |-> 0, read_hi |-> 0, unmapped |-> 0, status |-> EXIT_SUCCESS]

\* map_device_region: the length handed to mmap (from file offset 0) is
\* min(size, st.st_size); NoMap when open or mmap fails (mmap rejects a
\* length of 0)
map_device_region(opens, st_size, size) ==
    LET length == IF size > st_size THEN st_size ELSE size
    IN  IF ~opens \/ length = 0 THEN NoMap ELSE length

\* the bytes the kernel maps for a request of the given length: whole pages
MappedExtent(length) ==
    IF length = NoMap THEN 0
    ELSE ((length + PAGE_SIZE - 1) \div PAGE_SIZE) * PAGE_SIZE

\* main with the resource file: size is checked against MAX_DUMP_SIZE, the
\* region is mapped, size bytes are read at map + offset, and size bytes are
\* unmapped at map
apollo_dump(opens, st_size, offset, size) ==
    /\ dump' =
         IF size > MAX_DUMP_SIZE
         THEN [NoDump EXCEPT !.pc = "exited", !.offset = offset,
                             !.size = size, !.st_size = st_size,
                             !.status = EXIT_FAILURE]
         ELSE LET map == map_device_region(opens, st_size, size)
              IN  IF map = NoMap
                  THEN [NoDump EXCEPT !.pc = "exited", !.offset = offset,
                                      !.size = size, !.st_size = st_size,
                                      !.status = EXIT_FAILURE]
                  ELSE [pc |-> "exited", offset |-> offset, size |-> size,
                        st_size |-> st_size, mapped |-> map,
                        read_lo |-> offset, read_hi |-> offset + size,
                        unmapped |-> size, status |-> EXIT_SUCCESS]
    /\ dump' # dump
    /\ UNCHANGED <<kernelVars, usr, file, config, saved, cli, daemon, codec,
                   test>>

----------------------------------------------------------------------------
(* the state apollo_probe leaves behind when it returns 0 *)

Init ==
    /\ regs = [r \in RegNames |->
                 CASE r = "CONTROL" -> APOLLO_CMD_RESET
                   [] r = "STATUS" -> APOLLO_STATUS_READY
                   [] r = "SAMPLE_RATE" -> 48000
                   [] r = "FORMAT" -> APOLLO_FORMAT_S32_LE
                   [] OTHER -> 0]
    /\ running = 0
    /\ sample_rate = 0
    /\ format = 0
    /\ channels = 0
    /\ runtime = [s \in Streams |-> NoRuntime]
    /\ phase = [s \in Streams |-> "Closed"]
    /\ ret = [s \in Streams |-> "none"]
    /\ call = [s \in Streams |-> "none"]
    /\ faulted = {}
    /\ irq_pc = "idle"
    /\ irq_status = 0
    /\ irq_notified = {}
    /\ irq_acked = NoAck
    /\ control_lock = Free
    /\ ctl_pc = [c \in Callers |-> "idle"]
    /\ ctl_cmd = [c \in Callers |-> 0]
    /\ ctl_data = [c \in Callers |-> FALSE]
    /\ ctl_out = [c \in Callers |-> Unset]
    /\ ctl_ret = [c \in Callers |-> "none"]
    /\ periods = [s \in Streams |-> 0]
    /\ removed = FALSE
    /\ usr = NoCall
    /\ file = NoFile
    /\ config = UninitConfig(0)
    /\ saved = NoSnapshot
    /\ cli = NoCli
    /\ daemon = DaemonOff
    /\ codec = NoCodec
    /\ pci = Bound
    /\ test = NoRun
    /\ dump = NoDump

\* parameters the audio subsystem asks for while streaming is exercised
StreamRates == {48000}
StreamFormats == {"S16_LE", "S8"}
StreamChannels == {2}
StreamBytes == {4096}

\* The order in which the audio subsystem calls the callbacks of one
\* substream: open -> hw_params -> prepare -> trigger start/stop, close from
\* any state.
CallerMay(op, s) ==
    CASE op = "open" -> StreamState(s) = "Closed"
      [] op = "close" -> StreamState(s) # "Closed"
      [] op = "hw_params" -> StreamState(s) \in {"Open", "Configured"}
      [] op = "hw_free" -> StreamState(s) \in {"Configured", "Prepared", "Stopped"}
      [] op = "prepare" -> StreamState(s) \in {"Configured", "Prepared", "Stopped"}
      [] op = "start" -> StreamState(s) \in {"Prepared", "Stopped"}
      [] op = "stop" -> StreamState(s) = "Running"
      [] OTHER -> StreamState(s) # "Closed"

\* the calls the audio subsystem makes on one substream
PcmOps(s, Rates, Formats, Channels, Bytes) ==
    \/ CallerMay("open", s) /\ apollo_pcm_open(s)
    \/ CallerMay("close", s) /\ apollo_pcm_close(s)
    \/ /\ CallerMay("hw_params", s)
       /\ \E rate \in Rates, fmt \in Formats, ch \in Channels, bytes \in Bytes :
             apollo_pcm_hw_params(s, rate, fmt, ch, bytes)
    \/ CallerMay("hw_free", s) /\ apollo_pcm_hw_free(s)
    \/ CallerMay("prepare", s) /\ apollo_pcm_prepare(s)
    \/ CallerMay("start", s) /\ trigger_start_set(s)
    \/ trigger_start_write(s)
    \/ CallerMay("stop", s) /\ trigger_stop_set(s)
    \/ trigger_stop_write(s)
    \/ CallerMay("other", s) /\ trigger_default(s)

\* both substreams racing the interrupt handler and the device
Next ==
    \/ \E s \in Streams :
          PcmOps(s, StreamRates, StreamFormats, StreamChannels, StreamBytes)
    \/ apollo_interrupt
    \/ \E v \in StatusValues : DeviceStatus(v)

Spec == Init /\ [][Next]_vars

\* concurrent control callers, the interrupt handler and the device
NextCtl ==
    \/ \E c \in Callers : apollo_control_command(c)
    \/ apollo_interrupt
    \/ \E v \in StatusValues : DeviceStatus(v)

SpecCtl == Init /\ [][NextCtl]_vars

\* Scheduling of the control callers.  A thread inside
\* apollo_control_command keeps running: each of its steps is taken once it
\* stays possible, and wait_event_timeout ends after at most 100 ms, with
\* READY or without.  mutex_lock queues its waiters and hands the lock to
\* the first of them, so a waiter for which the lock is free again and
\* again gets it.
FairCtl ==
    \A c \in Callers :
       /\ SF_vars(ctl_lock(c))
       /\ WF_vars(ctl_write(c))
       /\ WF_vars(ctl_wait_ready(c) \/ ctl_timeout(c))
       /\ WF_vars(ctl_read(c))
       /\ WF_vars(ctl_unlock(c))

\* the control callers and the device alone: what the interrupt handler
\* does to STATUS (clearing bits) the device action does as well
NextCtlDevice ==
    \/ \E c \in Callers : apollo_control_command(c)
    \/ \E v \in StatusValues : DeviceStatus(v)

SpecCtlFair == Init /\ [][NextCtlDevice]_vars /\ FairCtl

\* every entry of the capability table, and values outside it
TableRates == HwRates \cup {22050}
TableFormats == HwFormats \cup {"S8"}
TableChannels == (channels_min - 1)..(channels_max + 1)

\* one substream configured and prepared over the whole capability table
NextParams ==
    \/ CallerMay("open", "playback") /\ apollo_pcm_open("playback")
    \/ CallerMay("close", "playback") /\ apollo_pcm_close("playback")
    \/ /\ CallerMay("hw_params", "playback")
       /\ \E rate \in TableRates, fmt \in TableFormats, ch \in TableChannels,
             bytes \in StreamBytes :
             apollo_pcm_hw_params("playback", rate, fmt, ch, bytes)
    \/ CallerMay("prepare", "playback") /\ apollo_pcm_prepare("playback")

SpecParams == Init /\ [][NextParams]_vars

\* scenario A: 48 kHz, 32-bit, 2 channels, 4 periods of 256 frames
ScenarioRates == {48000}
ScenarioFormats == {"S32_LE"}
ScenarioChannels == {2}
ScenarioBytes == {8192}

\* one substream streaming against the interrupt handler and the DMA engine
NextDma ==
    \/ PcmOps("playback", ScenarioRates, ScenarioFormats, ScenarioChannels,
              ScenarioBytes)
    \/ apollo_interrupt
    \/ DevicePeriod("playback")
    \/ DeviceDrain("playback")

SpecDma == Init /\ [][NextDma]_vars

\* addresses the device presents in DMA_ADDR: below the buffer, inside it,
\* its end, and the largest word
DmaAddrValues ==
    {0, DmaBase - 4, DmaBase, DmaBase + 8, DmaBase + 8192 - 8, DmaBase + 8192,
     WordMod - 8}

\* one substream whose position is read while the device moves DMA_ADDR
NextPtr ==
    \/ PcmOps("playback", ScenarioRates, ScenarioFormats, ScenarioChannels,
              ScenarioBytes)
    \/ \E v \in DmaAddrValues : DeviceDmaAddr(v)

SpecPtr == Init /\ [][NextPtr]_vars

\* the driver is unbound, bound again (any step of probe may fail),
\* suspended and resumed, while the device changes STATUS and the shared
\* interrupt line fires
NextProbe ==
    \/ apollo_probe
    \/ apollo_hw_init
    \/ apollo_suspend
    \/ apollo_resume
    \/ apollo_remove_steps
    \/ IrqLine
    \/ \E v \in StatusValues : DeviceStatus(v)

SpecProbe == Init /\ [][NextProbe]_vars

\* parameters of a stream that programs non-default values into the device
\* before a suspend
ResumeRates == {44100}
ResumeFormats == {"S16_LE"}

\* a stream is set up, the system suspends and resumes, the device changes
\* STATUS while apollo_hw_init polls it
NextHw ==
    \/ /\ pci.pc = "bound"
       /\ PcmOps("playback", ResumeRates, ResumeFormats, ScenarioChannels,
                 ScenarioBytes)
    \/ apollo_suspend
    \/ apollo_resume
    \/ apollo_hw_init
    \/ \E v \in StatusValues : DeviceStatus(v)

SpecHw == Init /\ [][NextHw]_vars

\* command lines of the test suite
TestArgs == {<<>>, <<"--device">>, <<"--verbose">>, <<"--verbose", "--device">>}

NextTest ==
    \/ \E argv \in TestArgs : apollo_test_main(argv)
    \/ \E result \in {TEST_PASSED, TEST_FAILED, TEST_SKIPPED} :
          apollo_test_case(result)
    \/ print_test_summary

SpecTest == Init /\ [][NextTest]_vars

\* lengths of the device file, offsets and sizes given to the dump tool
FileLengths == {0, 16, 256, 4096, 8192}
DumpOffsets == {0, 16, 4096}
DumpSizes == {0, 16, 256, 4096, MAX_DUMP_SIZE, MAX_DUMP_SIZE + 1}

NextDump ==
    \E opens \in BOOLEAN, st_size \in FileLengths, offset \in DumpOffsets,
       size \in DumpSizes :
        apollo_dump(opens, st_size, offset, size)

SpecDump == Init /\ [][NextDump]_vars

\* control callers and a streaming substream while the device is unplugged
NextRemove ==
    \/ \E c \in Callers : apollo_control_command(c)
    \/ /\ ~removed
       /\ PcmOps("playback", ScenarioRates, ScenarioFormats, ScenarioChannels,
                 ScenarioBytes)
    \/ apollo_remove
    \/ \E v \in StatusValues : DeviceStatus(v)

SpecRemove == Init /\ [][NextRemove]_vars

\* channels and gains (whole dB) the library is called with
LibChannels == 0..5
GainInputs == (-3..68) \cup {80}

\* a program calling the control library
NextLib ==
    \/ \E channel \in LibChannels, gain_db \in GainInputs :
          apollo_control_set_analog_gain(channel, gain_db)
    \/ \E channel \in LibChannels : apollo_control_get_analog_gain(channel)
    \/ \E channel \in LibChannels, enabled \in BOOLEAN :
          apollo_control_set_phantom_power(channel, enabled)
    \/ \E channel \in LibChannels : apollo_control_get_phantom_power(channel)
    \/ \E channel \in LibChannels, source \in InputSources :
          apollo_control_set_input_source(channel, source)
    \/ \E channel \in LibChannels : apollo_control_get_input_source(channel)

SpecLib == Init /\ [][NextLib]_vars

\* commands, payload bytes and payload lengths of the messages sent
CodecCommands == {1, 258, 65535}
PayloadBytes == {0, 90, 255}
MaxPayload == 2
Payloads == UNION {[1..n -> PayloadBytes] : n \in 0..MaxPayload}

\* the bit patterns by which a byte in flight is changed
ByteMasks == {1, 2, 4, 8, 16, 32, 64, 128, 129, 255}

NextCodec ==
    \/ \E cmd \in CodecCommands, data \in Payloads : codec_send(cmd, data)
    \/ \E pos \in 1..(MsgSize + MaxPayload), mask \in ByteMasks :
          CorruptByte(pos, mask)
    \/ TruncateFrame
    \/ codec_receive
    \/ codec_done

SpecCodec == Init /\ [][NextCodec]_vars

\* command words and argument words apolloctl is run with
CmdWords ==
    {Tok("gain", 0), Tok("phantom", 0), Tok("input", 0), Tok("monitor", 0),
     Tok("save", 0), Tok("load", 0), Tok("status", 0), Tok("help", 0),
     Tok("frobnicate", 0)}

ArgWords ==
    {Tok("0", 0), Tok("1", 1), Tok("5", 5), Tok("30", 30),
     Tok("on", 0), Tok("alt", 0), Tok("analog2", 0)}

\* cmd_gain, cmd_phantom and cmd_input look at two arguments at most
MaxArgs == 2

ArgVectors ==
    {<<>>} \cup
    {<<c>> \o a : c \in CmdWords,
                 a \in UNION {[1..n -> ArgWords] : n \in 0..MaxArgs}}

NextCli ==
    \E argv \in ArgVectors, init_ok \in BOOLEAN : apolloctl(argv, init_ok)

SpecCli == Init /\ [][NextCli]_vars

\* lines an administrator may put into /etc/apollo.conf
EditLines ==
    {Line("analog_gain1", FormatF1(1230)),
     Line("analog_gain2", JunkText),
     Line("analog_gain3", FormatF1(500)),
     Line("colour", FormatD(1)),
     Line("# comment", NoText)}

MaxEditLines == 2

ConfFiles ==
    {NoFile, UnreadableFile}
      \cup {FileOf(l) : l \in UNION {[1..n -> EditLines] : n \in 0..MaxEditLines}}

\* snapshots a caller of the library may build before saving
Snapshots ==
    {DefaultConfig,
     [DefaultConfig EXCEPT !["analog_gain1"] = 1200],
     [DefaultConfig EXCEPT !["analog_gain1"] = 1234],
     [DefaultConfig EXCEPT !["analog_gain3"] = 1000],
     [DefaultConfig EXCEPT !["output_gain_l"] = -600],
     [DefaultConfig EXCEPT !["phantom_power1"] = 1],
     [DefaultConfig EXCEPT !["monitor_source"] = 1]}

Signals == {"SIGTERM", "SIGINT", "SIGHUP"}

\* the daemon, and the administrator editing its configuration file
\* the steps of the daemon process and the signals sent to it
DaemonSteps ==
    \/ \E foreground \in BOOLEAN, written \in BOOLEAN :
          apollod_main(foreground, written)
    \/ \E sig \in Signals : signal_handler(sig)
    \/ \E ok \in BOOLEAN : daemon_control_init(ok)
    \/ daemon_load_config
    \/ \E ok \in BOOLEAN : daemon_init_mixer(ok)
    \/ \E r \in EventResults : daemon_process_events(r)
    \/ daemon_stop
    \/ apollod_exit

NextDaemon ==
    \/ DaemonSteps
    \/ \E f \in ConfFiles : EditFile(f)

SpecDaemon == Init /\ [][NextDaemon]_vars

\* the daemon process keeps being scheduled: an iteration of its loop, the
\* exit from the loop and the return of main are taken when they can be
FairDaemon ==
    /\ WF_vars(daemon_stop)
    /\ WF_vars(apollod_exit)

\* the daemon reads the file once, in daemon_loop before its loop (SIGHUP
\* reloads nothing): for its shutdown the file is edited before that read
NextShutdown ==
    \/ DaemonSteps
    \/ /\ daemon.pc \in {"off", "init", "load"}
       /\ \E f \in ConfFiles : EditFile(f)

SpecDaemonFair == Init /\ [][NextShutdown]_vars /\ FairDaemon

\* a program using the configuration calls of the library
NextConf ==
    \/ \E f \in ConfFiles : EditFile(f)
    \/ \E g \in StackGarbage : DeclareConfig(g)
    \/ \E cfg \in Snapshots : AssignConfig(cfg)
    \/ apollo_control_default_config
    \/ apollo_control_load_config
    \/ \E writable \in BOOLEAN : apollo_control_save_config(writable)

SpecConf == Init /\ [][NextConf]_vars

----------------------------------------------------------------------------
(* Properties *)

\* a request that was written to CONTROL and whose response was not yet taken
InFlight(d) == ctl_pc[d] \in {"wait", "read"}

\* C1: two concurrent apollo_control_command calls are serialized: a caller
\* writes its command to CONTROL only when no other caller's request is
\* still unresolved (response not yet observed, timeout not yet expired).
C1_ControlSerialized ==
    [][\A c \in Callers :
         (ctl_pc[c] = "write" /\ ctl_pc'[c] # "write")
            => \A d \in Callers \ {c} : ~InFlight(d)]_vars

\* a second caller has its command in CONTROL after the first one timed out
C1_Witness ==
    \E c, d \in Callers :
       /\ c # d
       /\ ctl_ret[c] = "ETIMEDOUT"
       /\ ctl_pc[d] = "wait"
       /\ regs["CONTROL"] = ctl_cmd[d]

\* C2: every invocation of apollo_interrupt, whatever status bits it read,
\* has written exactly those bits back to STATUS when it returns.
C2_AlwaysAcknowledged ==
    [][(irq_pc # "idle" /\ irq_pc' = "idle")
          => (irq_acked # NoAck /\ irq_acked = irq_status)]_vars

\* the handler is about to return from an invocation that saw no bit set
C2_Witness ==
    irq_pc = "return" /\ irq_status = 0 /\ irq_acked = 0

\* C3: when the handler saw ERROR while the substream was Running, the
\* running flag is clear when the handler returns.
C3_ErrorStopsStream ==
    \A s \in Streams :
       (/\ irq_pc = "return"
        /\ HasBit(irq_status, APOLLO_STATUS_ERROR)
        /\ s \in faulted)
           => StreamState(s) # "Running"

\* C4: once the handler saw ERROR for a substream, no period-elapsed
\* notification is delivered for it until it is prepared again.
C4_NoPeriodAfterError ==
    [][\A s \in Streams :
         (s \notin irq_notified /\ s \in irq_notified') => s \notin faulted]_vars

\* C5: after trigger_stop has returned, no period-elapsed notification is
\* delivered for the substream until the next trigger_start.
C5_NoPeriodAfterStop ==
    [][\A s \in Streams :
         (s \notin irq_notified /\ s \in irq_notified')
            => ~(phase[s] = "Stopped" /\ call[s] = "none")]_vars

\* C6: close ends in Closed, and a close of a Running substream has issued
\* the hardware STOP command by the time it completes.
C6_CloseStopsHardware ==
    [][\A s \in Streams :
         (phase[s] # "Closed" /\ phase'[s] = "Closed")
            => (StreamState(s) = "Running"
                  => regs'["DMA_CONTROL"] = APOLLO_CMD_STOP)]_vars

\* C7: the hardware is started only by a trigger_start issued in Prepared
\* or Stopped, and it is never started while the substream is Closed, Open
\* or Configured.
C7_StartOnlyWhenPrepared ==
    /\ [][\A s \in Streams :
            (call[s] = "none" /\ call'[s] = "start")
               => StreamState(s) \in {"Prepared", "Stopped"}]_vars
    /\ [](regs["DMA_CONTROL"] = APOLLO_CMD_START
            => \E s \in Streams :
                  phase[s] \notin {"Closed", "Open", "Configured"})

\* the capability table of apollo_pcm_hardware
InTable(rate, fmt, ch) ==
    /\ rate \in HwRates
    /\ fmt \in HwFormats
    /\ ch \in channels_min..channels_max

\* C8: hw_params returns -EINVAL exactly when the requested parameters are
\* outside the capability table, and otherwise records them.
C8_ValidatesTable ==
    [][\A rate \in TableRates, fmt \in TableFormats, ch \in TableChannels,
          bytes \in StreamBytes :
         apollo_pcm_hw_params("playback", rate, fmt, ch, bytes)
            => /\ ret'["playback"] = "EINVAL" <=> ~InTable(rate, fmt, ch)
               /\ InTable(rate, fmt, ch)
                    => /\ sample_rate' = rate
                       /\ channels' = ch
                       /\ format' = FormatCode(fmt)]_vars

\* C9: a prepare that directly follows a successful hw_params succeeds,
\* leaves the configured rate and format, the buffer base and the buffer
\* size in SAMPLE_RATE, FORMAT, DMA_ADDR and DMA_SIZE, and the pointer
\* callback then returns frame 0.
C9_PrepareProgramsDevice ==
    [][\A s \in Streams :
         (phase[s] = "Configured" /\ ret[s] = "OK" /\ phase'[s] = "Prepared")
            => /\ ret'[s] = "OK"
               /\ regs'["SAMPLE_RATE"] = sample_rate
               /\ regs'["FORMAT"] = format
               /\ regs'["DMA_ADDR"] = DmaBase
               /\ regs'["DMA_SIZE"] = runtime[s].dma_bytes
               /\ apollo_pcm_pointer(s)' = 0]_vars

\* playback prepared at 192 kHz, 24-bit, 8 channels
C9_Witness ==
    /\ phase["playback"] = "Prepared"
    /\ ret["playback"] = "OK"
    /\ regs["SAMPLE_RATE"] = 192000
    /\ regs["FORMAT"] = APOLLO_FORMAT_S24_3LE
    /\ runtime["playback"].frame_bytes = 24
    /\ regs["DMA_ADDR"] = DmaBase
    /\ regs["DMA_SIZE"] = 4096

\* C10: a prepare issued while the device does not report READY fails
\* with the timeout error and leaves the substream Configured.
C10_PrepareWaitsForReady ==
    [][\A s \in Streams :
         (/\ apollo_pcm_prepare(s)
          /\ phase[s] = "Configured"
          /\ ~HasBit(regs["STATUS"], APOLLO_STATUS_READY))
            => (ret'[s] = "ETIMEDOUT" /\ phase'[s] = "Configured")]_vars

\* frames of the buffer of substream s
BufferFrames(s) == bytes_to_frames(runtime[s], runtime[s].dma_bytes)

\* C11: while a substream stays Stopped after trigger_stop, the position
\* the pointer callback returns does not change, whatever the device does
\* to DMA_ADDR.
C11_StoppedPositionLatched ==
    [][\A s \in Streams :
         (/\ phase[s] = "Stopped" /\ call[s] = "none"
          /\ phase'[s] = "Stopped" /\ call'[s] = "none")
            => apollo_pcm_pointer(s)' = apollo_pcm_pointer(s)]_vars

\* C12: when the N-th period notification since trigger_start is delivered
\* to a Running substream, the pointer callback returns
\* (N * period_size) mod buffer_length, which is less than buffer_length.
C12_PositionFollowsPeriods ==
    [][\A s \in Streams :
         (/\ s \notin irq_notified /\ s \in irq_notified'
          /\ phase[s] = "Running" /\ call[s] = "none" /\ running = 1)
            => /\ apollo_pcm_pointer(s)'
                    = (periods'[s] * PeriodFrames) % BufferFrames(s)
               /\ apollo_pcm_pointer(s)' < BufferFrames(s)]_vars

\* C13: every open of a Closed substream returns 0, leaves it Open and
\* leaves the parameters 48000 Hz, S32_LE, 2 channels; an open is always
\* possible on a Closed substream.
C13_OpenSetsDefaults ==
    /\ [][\A s \in Streams :
            (phase[s] = "Closed" /\ phase'[s] # "Closed")
               => /\ phase'[s] = "Open"
                  /\ ret'[s] = "OK"
                  /\ sample_rate' = 48000
                  /\ format' = APOLLO_FORMAT_S32_LE
                  /\ channels' = 2]_vars
    /\ [](\A s \in Streams :
            phase[s] = "Closed" => ENABLED apollo_pcm_open(s))

\* playback was used at 192 kHz, 24-bit, closed and opened again
C13_Witness ==
    /\ phase["playback"] = "Open"
    /\ ret["playback"] = "OK"
    /\ regs["SAMPLE_RATE"] = 192000
    /\ regs["FORMAT"] = APOLLO_FORMAT_S24_3LE
    /\ sample_rate = 48000
    /\ format = APOLLO_FORMAT_S32_LE
    /\ channels = 2

\* C14: a period-elapsed notification is delivered only to a substream
\* that is Running; a Closed, not started or Stopped substream gets none.
C14_PeriodOnlyToRunning ==
    [][\A s \in Streams :
         (s \notin irq_notified /\ s \in irq_notified')
            => StreamState(s) = "Running"]_vars

\* C15: an invocation of the handler assigns its status word once, from
\* the STATUS register on entry; the ERROR branch, the READY branch and the
\* write-back use that word, and a bit the device raised after the read is
\* still set after the write-back.
C15_SingleStatusRead ==
    [][/\ (irq_status' # irq_status) => (irq_pc = "idle" \/ irq_pc' = "idle")
       /\ (irq_pc = "idle" /\ irq_pc' # "idle")
             => irq_status' = regs["STATUS"]
       /\ (irq_pc = "error" /\ irq_pc' # "error")
             => IF HasBit(irq_status, APOLLO_STATUS_ERROR)
                THEN running' = 0 ELSE running' = running
       /\ (irq_pc = "ready" /\ irq_pc' # "ready")
             => (irq_notified' # {}
                   <=> HasBit(irq_status, APOLLO_STATUS_READY))
       /\ (irq_pc = "ack" /\ irq_pc' # "ack")
             => /\ irq_acked' = irq_status
                /\ \A b \in StatusBits :
                      HasBit(regs'["STATUS"], b)
                         <=> (HasBit(regs["STATUS"], b)
                                /\ ~HasBit(irq_status, b))]_vars

\* the handler read READY alone and wrote it back; ERROR, raised by the
\* device in the meantime, is still pending
C15_Witness ==
    /\ irq_pc = "return"
    /\ irq_status = APOLLO_STATUS_READY
    /\ irq_acked = APOLLO_STATUS_READY
    /\ regs["STATUS"] = APOLLO_STATUS_ERROR

\* C16: the handler reads and writes STATUS only when no control call
\* holds control_lock.
C16_HandlerRespectsLock ==
    [][((irq_pc = "idle" /\ irq_pc' # "idle")
          \/ (irq_pc = "ack" /\ irq_pc' # "ack"))
         => control_lock = Free]_vars

\* C17: a control call that times out has written the RESET command to
\* CONTROL by the time it gives up the channel.
C17_ResetOnTimeout ==
    [][\A c \in Callers :
         (ctl_pc[c] = "wait" /\ ctl_ret'[c] = "ETIMEDOUT")
            => regs'["CONTROL"] = APOLLO_CMD_RESET]_vars

\* C18: every control call that was entered returns, whatever the device
\* does with STATUS and whoever else is calling.
C18_ControlCallReturns ==
    \A c \in Callers : (ctl_pc[c] # "idle") ~> (ctl_pc[c] = "idle")

\* one caller waits for the lock while the call in flight, which the
\* device does not answer, is still waiting for READY
C18_Witness ==
    \E c, d \in Callers :
       /\ ctl_pc[c] = "wait"
       /\ control_lock = c
       /\ ~HasBit(regs["STATUS"], APOLLO_STATUS_READY)
       /\ ctl_pc[d] = "lock"

\* C19: once the device is removed, a control call that was queued or in
\* flight returns the device-gone error and writes no command to the
\* device.
C19_RemovalFailsControlCalls ==
    [][removed =>
         /\ regs'["CONTROL"] = regs["CONTROL"]
         /\ \A c \in Callers :
               (ctl_pc[c] # "idle" /\ ctl_pc'[c] = "idle")
                  => ctl_ret'[c] = "ENODEV"]_vars

\* C20: set_analog_gain on a channel in 1..4 reports no error, and the
\* value it writes for a gain below 0 dB is the value for 0 dB, for a gain
\* above 65 dB the value for 65 dB.
C20_GainClamped ==
    (usr.op = "set_analog_gain" /\ usr.channel \in 1..4)
       => /\ usr.ret = "OK"
          /\ usr.gain_db < 0 => usr.value = GainToVolume(0)
          /\ usr.gain_db > GainMax => usr.value = GainToVolume(GainMax)

\* C21: a gain of 0..65 dB set on an analog input and read back directly
\* afterwards comes back within one quantisation step, 65 / (max - min) dB,
\* of the value that was set (gains read back are in thousandths of a dB).
C21_GainRoundTrip ==
    [][\A ch \in 1..4 :
         (/\ usr.op = "set_analog_gain" /\ usr.channel = ch
          /\ usr.gain_db \in 0..GainMax
          /\ usr'.op = "get_analog_gain" /\ usr'.channel = ch)
         => /\ usr.ret = "OK"
            /\ usr'.ret = "OK"
            /\ (usr'.out - usr.gain_db * 1000) * (VolumeMax - VolumeMin)
                   \in (0 - GainMax * 1000)..(GainMax * 1000)]_vars

\* the channels an operation of the library accepts
ValidChannels(op) ==
    IF op \in {"set_input_source", "get_input_source"}
    THEN 1..8
    ELSE 1..PhantomChannels

\* C22: every channel-addressed operation of the library called with a
\* channel outside its valid range returns the invalid-argument error and
\* has read or written no mixer value.
C22_ChannelValidated ==
    (usr.op # "none" /\ usr.channel \notin ValidChannels(usr.op))
       => (usr.ret = "EINVAL" /\ usr.value = NoValue /\ usr.out = NoValue)

KeysIn(f) == {f.lines[i].key : i \in 1..Len(f.lines)}

\* C25: after the daemon loaded an existing file, every key absent from the
\* file has its default value in the snapshot, and the load succeeded
\* whatever keys the file holds.
C25_AbsentKeysDefault ==
    [][(daemon.pc = "load" /\ daemon'.pc # "load" /\ file.state = "present")
       => /\ usr'.ret = "OK"
          /\ \A k \in ConfigFields \ KeysIn(file) :
                config'[k] = DefaultConfig[k]]_vars

\* C26: loading the file that apollo_control_save_config wrote gives a
\* snapshot equal to the saved one on every key the file holds, whatever
\* the struct that is loaded into held before.
C26_SaveLoadRoundTrip ==
    (usr.op = "load_config" /\ saved # NoSnapshot)
       => /\ usr.ret = "OK"
          /\ \A k \in PersistedKeys : config[k] = saved[k]

\* C29: once the daemon is in its main loop, a failed event-processing call
\* does not end it: the loop is left only after a shutdown signal cleared
\* the running flag, only SIGTERM and SIGINT clear that flag, and as long
\* as the flag is set the next iteration can be taken.
C29_DaemonKeepsServing ==
    /\ [][(daemon.pc = "loop" /\ daemon'.pc # "loop") => daemon.running = 0]_vars
    /\ [][(daemon.pc = "loop" /\ daemon.running # 0 /\ daemon'.running = 0)
            => \E sig \in {"SIGTERM", "SIGINT"} : signal_handler(sig)]_vars
    /\ [](daemon.pc = "loop" /\ daemon.running # 0
            => ENABLED daemon_process_events("OK"))

C29_Witness ==
    /\ daemon.pc = "loop"
    /\ daemon.last = "ENOMEM"
    /\ daemon.running # 0

\* C30: close, hw_free and trigger (start or stop) on the substream of one
\* direction leave the stream state of the other direction as it was; in
\* particular a Running substream stays Running.
C30_StreamsIndependent ==
    [][\A s \in Streams : \A o \in Streams \ {s} :
         (apollo_pcm_close(s) \/ apollo_pcm_hw_free(s) \/ apollo_pcm_trigger(s))
            => StreamState(o)' = StreamState(o)]_vars

\* the configuration file holds the value under the key
Persisted(f, key, val) ==
    /\ f.state = "present"
    /\ \E i \in 1..Len(f.lines) :
          f.lines[i].key = key /\ atof(f.lines[i].value) = val * 100

\* C27: the configuration file follows the mutations: after a run of
\* apolloctl that set something and reported success the file holds the new
\* value, and a run whose set failed or was rejected changed neither the
\* file nor the snapshot.
C27_WriteThrough ==
    [][((\E argv \in ArgVectors, init_ok \in BOOLEAN :
            apolloctl(argv, init_ok)) /\ cli'.ran.request = "set")
       => IF cli'.ran.exit = EXIT_SUCCESS
          THEN Persisted(file', cli'.ran.key, cli'.ran.val)
          ELSE file' = file /\ config' = config]_vars

\* C28: a run of apolloctl exits with 0 only if its arguments passed the
\* checks and no library call it made returned an error.
C28_ExitCode ==
    cli.ran.cmd # "none"
       => (cli.ran.exit = EXIT_SUCCESS => (cli.ran.valid /\ cli.ran.rets \subseteq {"OK"}))

\* C33: apollo_control_command releases control_lock on every return path:
\* the lock is owned only by a caller between its mutex_lock and its
\* mutex_unlock, it is free whenever no call is executing, and a call that
\* times out returns -ETIMEDOUT with the lock released and *data untouched.
C33_LockReleasedOnReturn ==
    /\ [](\A c \in Callers :
            control_lock = c => ctl_pc[c] \in {"write", "wait", "read", "unlock"})
    /\ []((\A c \in Callers : ctl_pc[c] = "idle") => control_lock = Free)
    /\ [][\A c \in Callers :
            (ctl_pc[c] = "wait" /\ ctl_pc'[c] = "idle")
               => /\ ctl_ret'[c] = "ETIMEDOUT"
                  /\ control_lock' = Free
                  /\ ctl_out'[c] = Unset]_vars

\* a call has timed out and no call is executing
C33_Witness ==
    /\ \E c \in Callers : ctl_ret[c] = "ETIMEDOUT" /\ ctl_out[c] = Unset
    /\ \A c \in Callers : ctl_pc[c] = "idle"
    /\ control_lock = Free

\* C34: a hw_params call that returns -EINVAL leaves the recorded sample
\* rate, channel count and format as they were and touches no register.
C34_RejectedConfigureKeepsState ==
    [][\A rate \in TableRates, fmt \in TableFormats, ch \in TableChannels,
          bytes \in StreamBytes :
         (/\ apollo_pcm_hw_params("playback", rate, fmt, ch, bytes)
          /\ ret'["playback"] = "EINVAL")
            => /\ sample_rate' = sample_rate
               /\ channels' = channels
               /\ format' = format
               /\ regs' = regs]_vars

\* C35: while a substream is Prepared or Running, the recorded sample rate
\* and format are the values in the SAMPLE_RATE and FORMAT registers;
\* opening or configuring the other substream does not change them.
C35_ParamsMatchHardware ==
    \A s \in Streams :
       (StreamState(s) \in {"Prepared", "Running"} /\ call[s] = "none")
          => /\ sample_rate = regs["SAMPLE_RATE"]
             /\ format = regs["FORMAT"]

\* C39: whatever address the device presents in DMA_ADDR, the pointer
\* callback of a configured substream returns a frame position inside the
\* buffer, 0 <= position < buffer length in frames.
C39_PointerInRange ==
    \A s \in Streams :
       (phase[s] \in {"Prepared", "Running"} /\ runtime[s].frame_bytes > 0)
          => apollo_pcm_pointer(s) \in 0..(BufferFrames(s) - 1)

\* C36: apollo_hw_init (also run on resume) reads STATUS at most 100 times
\* and then leaves its loop; it returns 0 exactly when one of those reads
\* showed READY, and when it returns -ETIMEDOUT it has not written the
\* default sample rate and format registers.
C36_HwInitBounded ==
    /\ [](pci.hw.reads <= HwInitTimeout)
    /\ [][(pci.pc = "hw_poll" /\ pci.hw.reads = HwInitTimeout /\ pci' # pci)
             => pci'.pc = "hw_check"]_vars
    /\ [][(pci.pc = "hw_check" /\ pci'.pc # "hw_check")
             => /\ pci'.err \in {"OK", "ETIMEDOUT"}
                /\ pci'.err = "OK" <=> pci.hw.seen
                /\ pci'.err = "ETIMEDOUT"
                      => /\ regs'["SAMPLE_RATE"] = regs["SAMPLE_RATE"]
                         /\ regs'["FORMAT"] = regs["FORMAT"]]_vars

C36_Witness ==
    /\ pci.pc = "bound"
    /\ pci.err = "ETIMEDOUT"
    /\ regs["SAMPLE_RATE"] = 44100
    /\ regs["FORMAT"] = APOLLO_FORMAT_S16_LE

\* C37: whichever step of apollo_probe fails, the failure path hands back
\* every resource acquired before it exactly once and none that was not
\* acquired; after a failed probe nothing remains allocated.
C37_ProbeFailureReleasesAll ==
    (pci.pc = "unbound" /\ pci.err \notin {"none", "OK"})
       => pci.held = {} /\ pci.bad = {}

\* C38: the interrupt handler never runs against released or uninitialized
\* state: while the interrupt is registered or a handler is in flight, the
\* registers are mapped, the DMA buffer is allocated, and the pcm pointer
\* and the running flag are initialized (so remove and the probe failure
\* path free the interrupt first, and probe requests it last).
C38_HandlerHasItsResources ==
    ("irq" \in pci.held \/ irq_pc # "idle")
       => /\ {"regs", "dma"} \subseteq pci.held
          /\ {"regs", "pcm"} \subseteq pci.fields
          /\ "running" \in pci.inited

C38_Witness ==
    /\ irq_pc # "idle"
    /\ pci.pc = "free_irq"

\* C31: in the test suite runner, without --device no test marked
\* requires_device is executed and each is counted as skipped; after all
\* tests ran, total = passed + failed + skipped, and the exit status is
\* nonzero exactly when at least one test failed.
C31_TestRunnerCounts ==
    /\ \A k \in 1..Len(test.results) :
          (test_cases[k].requires_device = 1
             /\ \A a \in 1..Len(test.argv) : test.argv[a] # "--device")
             => /\ test_cases[k].name \notin test.executed
                /\ test.results[k] = TEST_SKIPPED
    /\ test.pc = "exited"
          => /\ Len(test.results) = Len(test_cases)
             /\ test.test_count
                   = test.pass_count + test.fail_count + test.skip_count
             /\ test.skip_count
                   = Cardinality({k \in 1..Len(test.results) :
                                     test.results[k] = TEST_SKIPPED})
             /\ test.status # EXIT_SUCCESS
                   <=> \E k \in 1..Len(test.results) :
                          test.results[k] = TEST_FAILED

C31_Witness ==
    /\ test.pc = "exited"
    /\ test.run_device_tests = 0
    /\ test.skip_count = 5
    /\ test.fail_count = 0
    /\ test.status = EXIT_SUCCESS

\* C32: the register dump tool is bounds-checked: for every accepted
\* (offset, size) and every length of the device file, the bytes it reads
\* and the region it unmaps lie inside the region that was mapped.
C32_DumpInsideMapping ==
    (dump.pc = "exited" /\ dump.status = EXIT_SUCCESS)
       => /\ dump.read_hi <= MappedExtent(dump.mapped)
          /\ dump.unmapped <= MappedExtent(dump.mapped)

\* C40: after SIGTERM or SIGINT in the main loop the daemon eventually
\* leaves the loop, has cleaned up the control interface exactly once and,
\* in daemon mode, has removed its PID file when it exits; SIGHUP alone
\* never stops the loop.
C40_ShutdownCompletes ==
    /\ (daemon.pc = "loop" /\ daemon.running = 0)
          ~> (/\ daemon.pc = "exited"
              /\ daemon.cleanups = 1
              /\ daemon.daemon_mode = 1 => ~daemon.pid_file)
    /\ [](daemon.cleanups <= 1)
    /\ [][(daemon.pc = "loop" /\ signal_handler("SIGHUP"))
             => daemon'.pc = "loop" /\ daemon'.running = daemon.running]_vars

C40_Witness ==
    /\ daemon.pc = "exited"
    /\ daemon.running = 0
    /\ daemon.cleanups = 1
    /\ daemon.daemon_mode = 1
    /\ ~daemon.pid_file

====
